---- MODULE Spec2Model ----
(***************************************************************************)
(* Model of the CosmoCorral monitoring server: the streaming aggregation,  *)
(* baselining and rule-evaluation pipeline of src/server/pipeline.py and   *)
(* its caller in src/server/main.py.                                       *)
(*                                                                         *)
(* Number representation.  Python floats of the source are modelled by     *)
(* exact integers:                                                         *)
(*   - timestamps are whole seconds,                                       *)
(*   - focus_score and keystroke_rhythm_variance are scaled by 100         *)
(*     (0.3 is 30, 0.75 is 75),                                            *)
(*   - byte counts, cpu_usage, app_switches, mouse_idle_duration are       *)
(*     unscaled.                                                           *)
(* Baseline means and scores are exact fractions.  Where the rounding of   *)
(* the double arithmetic decides a property, update_baseline is modelled a *)
(* second time on IEEE-754 doubles (EmaDouble, SpecDouble).                *)
(***************************************************************************)
EXTENDS Integers, Sequences, FiniteSets, TLC

(***************************************************************************)
(* Bounds of the model.                                                    *)
(***************************************************************************)
MaxIngest == 3
MaxPackages == 2
MaxSamples == 2
MaxCalls == 3
MaxUpdates == 3
MaxProbes == 2
MaxActivity == 3
MaxSlots == 3
MaxTokens == 3

(***************************************************************************)
(* Configuration (pipeline.py, CONFIGURATION).                             *)
(***************************************************************************)
MiB == 1024 * 1024

\* variant: the CPU threshold is the secondary one
ANOMALY_THRESHOLDSCpu95 ==
    [ cpu_usage_high                 |-> 95,
      memory_usage_high              |-> 85,
      keystroke_rhythm_variance_high |-> 75,
      focus_score_low                |-> 30,
      app_switches_per_minute_high   |-> 15,
      network_bytes_30s_high         |-> 10 * MiB ]

ANOMALY_THRESHOLDS ==
    [ cpu_usage_high                 |-> 90,
      memory_usage_high              |-> 85,
      keystroke_rhythm_variance_high |-> 75,
      focus_score_low                |-> 30,
      app_switches_per_minute_high   |-> 15,
      network_bytes_30s_high         |-> 10 * MiB ]

\* variant: Resource Spike is configured as a warning
RULESResourceWarning ==
    [ resource_spike      |-> [severity |-> "warning",  escalate_to_gemini |-> TRUE],
      distraction_burst   |-> [severity |-> "warning",  escalate_to_gemini |-> TRUE],
      pause_inconsistent  |-> [severity |-> "warning",  escalate_to_gemini |-> TRUE],
      network_anomaly     |-> [severity |-> "critical", escalate_to_gemini |-> TRUE],
      focus_collapse      |-> [severity |-> "alert",    escalate_to_gemini |-> FALSE],
      impossible_timeline |-> [severity |-> "critical", escalate_to_gemini |-> TRUE] ]

RULES ==
    [ resource_spike      |-> [severity |-> "alert",    escalate_to_gemini |-> TRUE],
      distraction_burst   |-> [severity |-> "warning",  escalate_to_gemini |-> TRUE],
      pause_inconsistent  |-> [severity |-> "warning",  escalate_to_gemini |-> TRUE],
      network_anomaly     |-> [severity |-> "critical", escalate_to_gemini |-> TRUE],
      focus_collapse      |-> [severity |-> "alert",    escalate_to_gemini |-> FALSE],
      impossible_timeline |-> [severity |-> "critical", escalate_to_gemini |-> TRUE] ]

(***************************************************************************)
(* Inputs.  A package is a function from field names to values; a metric   *)
(* that is absent from the package is absent from its domain.  The nested  *)
(* groups of the source (system_metrics.cpu_usage, ...) are flattened to   *)
(* the leaf names.  A timestamp is the pair <<minute, second>> of an ISO   *)
(* string of one fixed hour.                                               *)
(***************************************************************************)
SessionIds == {"s1", "s1:x"}
DeviceIds == {"d1", "x:d1"}

Timestamps == { <<0, 0>>, <<0, 1>>, <<0, 31>>, <<1, 1>>, <<5, 1>> }

Quiet == [cpu_usage |-> 50, focus_score |-> 82]
ScenarioA == [cpu_usage |-> 92, focus_score |-> 82]
ScenarioB == [bytes_sent |-> 8 * MiB, bytes_received |-> 7 * MiB,
              keystroke_rhythm_variance |-> 10]
ScenarioC == [app_switches |-> 25, focus_score |-> 15]
PauseBurst == [keystroke_rhythm_variance |-> 80, mouse_idle_duration |-> 30]
\* every monitored signal exactly at its static threshold
AtThresholds == [cpu_usage |-> 90, focus_score |-> 30, bytes_sent |-> 10 * MiB,
                 keystroke_rhythm_variance |-> 75]
\* one condition of the distraction_burst rule each
SwitchesOnly == [app_switches |-> 25, focus_score |-> 82]
LowFocusOnly == [app_switches |-> 15, focus_score |-> 15]
\* one condition of the pause_inconsistent rule each
KeystrokeOnly == [keystroke_rhythm_variance |-> 80, mouse_idle_duration |-> 20]
IdleOnly == [keystroke_rhythm_variance |-> 75, mouse_idle_duration |-> 30]
\* every monitored signal beyond its static threshold
AllBreaching == [cpu_usage |-> 92, focus_score |-> 15, bytes_sent |-> 8 * MiB,
                 bytes_received |-> 7 * MiB, keystroke_rhythm_variance |-> 80]
\* a focus score of -0.1 and a keystroke variance of 1.2
OutOfRange == [focus_score |-> -10, keystroke_rhythm_variance |-> 120]
\* a sample that carries no metric at all
NoMetrics == [f \in {} |-> 0]
\* a CPU usage beyond the secondary threshold of 95, and one exactly at it
CpuHigh == [cpu_usage |-> 96]
CpuAtSecondary == [cpu_usage |-> 95]
\* a metric whose JSON value is a string instead of a number: the package
\* names the field in strings and holds no number for it
TextCpu == [strings |-> {"cpu_usage"}, focus_score |-> 82]
TextFocus == [strings |-> {"focus_score"}, cpu_usage |-> 50]
TextSwitches == [strings |-> {"app_switches"}, cpu_usage |-> 92]
\* 6 MiB of traffic: two such samples exceed 10 MiB together
HalfLoad == [bytes_sent |-> 4 * MiB, bytes_received |-> 2 * MiB]

Package(s, d, t, metrics) ==
    [session_id |-> s, device_id |-> d, timestamp |-> t] @@ metrics

\* variant: an absent field reads as 0 whatever the default
GetOrZero(package, field, default) ==
    IF field \in DOMAIN package THEN package[field] ELSE 0

\* dict.get(field, default)
Get(package, field, default) ==
    IF field \in DOMAIN package THEN package[field] ELSE default

\* value > threshold and value < threshold raise TypeError on a value that
\* is no number
IsNumber(package, field) ==
    ~("strings" \in DOMAIN package /\ field \in package.strings)

\* datetime.fromisoformat(ts) raises ValueError on a minute or a second
\* outside 0..59
IsIsoFormat(t) == t[1] \in 0..59 /\ t[2] \in 0..59

\* datetime.fromisoformat(ts).timestamp()
FromIsoFormat(t) == 60 * t[1] + t[2]

(***************************************************************************)
(* State.                                                                  *)
(***************************************************************************)
VARIABLES
    windows_30s,     \* AggregationEngine.windows_30s: key -> buffer
    windows_60s,     \* AggregationEngine.windows_60s
    windows_5m,      \* AggregationEngine.windows_5m
    ingested,        \* history: key -> sequence of <<timestamp, package>> handed to ingest
    last_ingest,     \* history: the arguments of the latest ingest call
    calls,           \* history: number of operations performed
    baselines,       \* AnomalyDetector.baselines: key -> baseline
    api_available,   \* GeminiAnalyzer.api_available
    pc,              \* where the event loop is: "idle", "analyzing", "hung"
    pending,         \* the locals of the process_package call inside analyze
    reports,         \* rows of the Report table
    broadcasts,      \* flagged reports handed to the broadcast callback
    responses,       \* replies sent by handler for Package messages
    handled,         \* history: one record per finished process_package call
    last_eval,       \* history: arguments and result of the latest evaluate call
    coroutines,      \* per connection: where its handler coroutine stands
    running,         \* the coroutine the event loop is running, or NoTask
    trace,           \* history: the pipeline steps in the order they ran
    last_call,       \* history: the latest direct call of the baseline tracker
    applied,         \* history: per baseline key, the update_baseline calls made
    tracker,         \* one baseline whose mean is held as an IEEE-754 double
    last_stats,      \* history: the latest get_stats call and what it returned
    probes,          \* history: the direct evaluate calls and their results
    connected_professors, \* main.connected_professors: the dict's entry slots
    broadcasting,    \* the broadcast_to_professors coroutines in progress or done
    devices,         \* Devices.devices: token -> session info
    online,          \* Devices.online: device id -> token
    history          \* FlagDetectionOrchestrator.pattern_detector.history

aggVars == <<windows_30s, windows_60s, windows_5m, ingested, last_ingest>>
pipeVars == <<baselines, api_available, pc, pending, reports, broadcasts,
              responses, handled>>
vars == <<windows_30s, windows_60s, windows_5m, ingested, last_ingest, calls,
          baselines, api_available, pc, pending, reports, broadcasts,
          responses, handled, last_eval, coroutines, running, trace,
          last_call, applied, tracker, last_stats, probes,
          connected_professors, broadcasting, devices, online, history>>
loopVars == <<coroutines, running, trace>>
trackVars == <<last_call, applied, tracker>>
probeVars == <<last_stats, probes>>
sideVars == <<connected_professors, broadcasting, devices, online, history>>

Last(seq) == seq[Len(seq)]

Range(seq) == { seq[i] : i \in 1..Len(seq) }

NoIngest == [key |-> "", entry |-> <<>>]
NoCall == [package |-> <<>>]
NoEval == [package |-> <<>>]
NoTracker == [count |-> 0]
NoTrackerCall == [op |-> "none"]
NoStats == [window_name |-> "none"]
NoIterator == [di_used |-> 0, di_pos |-> 1, len |-> 0]
NoBroadcast == [ at |-> "idle", to |-> "", it |-> NoIterator, start |-> {},
                 sent |-> {}, disconnected |-> <<>>, error |-> "" ]
\* what process_package yields when it builds no flagged report
None == [returned |-> "None"]
Raised == [returned |-> "exception"]

(***************************************************************************)
(* AggregationWindow and AggregationEngine.                                *)
(***************************************************************************)
WINDOW_30S == 30

\* variant: the middle window is shorter than the short one
WINDOW_60SShorter == WINDOW_30S - 10

WINDOW_60S == 60
WINDOW_5M == 300

\* variant: the entry exactly at the cutoff is evicted too
RECURSIVE EvictInclusive(_, _)
EvictInclusive(buffer, cutoff) ==
    IF buffer # <<>> /\ buffer[1][1] <= cutoff
    THEN EvictInclusive(Tail(buffer), cutoff)
    ELSE buffer

\* the while loop of AggregationWindow.add
RECURSIVE Evict(_, _)
Evict(buffer, cutoff) ==
    IF buffer # <<>> /\ buffer[1][1] < cutoff
    THEN Evict(Tail(buffer), cutoff)
    ELSE buffer

\* variant: a sample older than the newest buffered entry is dropped
AddDropLate(buffer, window_size, timestamp, package) ==
    IF buffer # <<>> /\ timestamp < buffer[Len(buffer)][1]
    THEN buffer
    ELSE Evict(Append(buffer, <<timestamp, package>>), timestamp - window_size)

\* AggregationWindow.add
Add(buffer, window_size, timestamp, package) ==
    Evict(Append(buffer, <<timestamp, package>>), timestamp - window_size)

\* network_bytes_total of AggregationWindow.get_aggregated_stats
RECURSIVE NetworkBytesTotal(_)
NetworkBytesTotal(buffer) ==
    IF buffer = <<>> THEN 0
    ELSE Get(buffer[1][2], "bytes_sent", 0) + Get(buffer[1][2], "bytes_received", 0)
         + NetworkBytesTotal(Tail(buffer))

\* defaultdict lookup: an absent key reads as a fresh empty window
Buffer(windows, key) ==
    IF key \in DOMAIN windows THEN windows[key] ELSE <<>>

\* assignment of windows[key]
Store(windows, key, buffer) ==
    [k \in DOMAIN windows \cup {key} |-> IF k = key THEN buffer ELSE windows[k]]

\* f"{session_id}:{device_id}"
Key(session_id, device_id) == session_id \o ":" \o device_id

\* AggregationEngine.ingest, as a change of the three window maps
IngestInto(windows, window_size, session_id, device_id, package) ==
    LET timestamp == FromIsoFormat(package.timestamp)
        key == Key(session_id, device_id)
    IN  Store(windows, key, Add(Buffer(windows, key), window_size, timestamp, package))

IngestHistory(session_id, device_id, package) ==
    LET key == Key(session_id, device_id)
        timestamp == FromIsoFormat(package.timestamp)
    IN  /\ ingested' = [k \in DOMAIN ingested \cup {key} |->
                          IF k = key
                          THEN Append(IF key \in DOMAIN ingested THEN ingested[key] ELSE <<>>,
                                      <<timestamp, package>>)
                          ELSE ingested[k]]
        /\ last_ingest' = [key |-> key, entry |-> <<timestamp, package>>]

EngineIngest(session_id, device_id, package) ==
    /\ windows_30s' = IngestInto(windows_30s, WINDOW_30S, session_id, device_id, package)
    /\ windows_60s' = IngestInto(windows_60s, WINDOW_60S, session_id, device_id, package)
    /\ windows_5m' = IngestInto(windows_5m, WINDOW_5M, session_id, device_id, package)
    /\ IngestHistory(session_id, device_id, package)

(***************************************************************************)
(* Exact arithmetic for the float-valued quantities: a rational is a       *)
(* reduced fraction <<numerator, denominator>> with denominator > 0.       *)
(***************************************************************************)
Abs(n) == IF n < 0 THEN -n ELSE n

RECURSIVE GCD(_, _)
GCD(a, b) == IF b = 0 THEN a ELSE GCD(b, a % b)

Rat(n, d) ==
    LET g == GCD(Abs(n), Abs(d))
        sign == IF d < 0 THEN -1 ELSE 1
    IN  <<sign * (n \div g), sign * (d \div g)>>

RatSub(x, y) == Rat(x[1] * (y[2] \div GCD(x[2], y[2])) - y[1] * (x[2] \div GCD(x[2], y[2])),
                    x[2] * (y[2] \div GCD(x[2], y[2])))
RatDiv(x, y) == Rat(x[1] * y[2], x[2] * y[1])
RatLess(x, y) == x[1] * y[2] < y[1] * x[2]
RatAbs(x) == <<Abs(x[1]), x[2]>>
RatMin(x, y) == IF RatLess(y, x) THEN y ELSE x

\* alpha * value + (1 - alpha) * mean with alpha = 0.1
Ema(value, mean) ==
    LET d == (value[2] * mean[2]) \div GCD(value[2], mean[2])
    IN  Rat(value[1] * (d \div value[2]) + 9 * mean[1] * (d \div mean[2]), 10 * d)

\* the value of a field kept as hundredths
Hundredths(n) == Rat(n, 100)
Whole(n) == Rat(n, 1)

(***************************************************************************)
(* AnomalyDetector.                                                        *)
(***************************************************************************)
\* the default of the baselines defaultdict
\* variant: a new baseline starts with a dispersion of 2
NewBaselineWide == [mean |-> Whole(0), std_dev |-> Whole(2), count |-> 0]

NewBaseline == [mean |-> Whole(0), std_dev |-> Whole(1), count |-> 0]

\* f"{session_id}:{signal_name}"
BaselineKey(session_id, signal_name) == session_id \o ":" \o signal_name

\* self.baselines[key]: an absent key is created with the default
Touch(bl, key) ==
    IF key \in DOMAIN bl THEN bl
    ELSE [k \in DOMAIN bl \cup {key} |-> IF k = key THEN NewBaseline ELSE bl[k]]

\* variant: looking a baseline up counts as its first observation
ZScoreBaselinesCounting(bl, session_id, signal_name) ==
    LET key == BaselineKey(session_id, signal_name)
        t == Touch(bl, key)
    IN  IF t[key].count = 0 THEN [t EXCEPT ![key].count = 1] ELSE t

\* the state of the baselines after AnomalyDetector.compute_z_score
ZScoreBaselines(bl, session_id, signal_name) ==
    LET key == BaselineKey(session_id, signal_name)
        t == Touch(bl, key)
    IN  IF t[key].std_dev = Whole(0)
        THEN [t EXCEPT ![key].std_dev = Whole(1)]
        ELSE t

\* variant: the score is taken against the baseline that already holds
\* the value
ComputeZScoreUpdated(bl, session_id, signal_name, value) ==
    LET b == ZScoreBaselines(bl, session_id, signal_name)
                [BaselineKey(session_id, signal_name)]
        mean == IF b.count = 0 THEN value ELSE Ema(value, b.mean)
    IN  RatDiv(RatSub(value, mean), b.std_dev)

\* the value returned by AnomalyDetector.compute_z_score
ComputeZScore(bl, session_id, signal_name, value) ==
    LET b == ZScoreBaselines(bl, session_id, signal_name)
                [BaselineKey(session_id, signal_name)]
    IN  RatDiv(RatSub(value, b.mean), b.std_dev)

\* variant: the moving average is applied to the first observation too
UpdateBaselineAlwaysEma(bl, session_id, signal_name, value) ==
    LET key == BaselineKey(session_id, signal_name)
        t == Touch(bl, key)
    IN  [t EXCEPT ![key].mean = Ema(value, t[key].mean),
                  ![key].count = t[key].count + 1]

\* AnomalyDetector.update_baseline
UpdateBaseline(bl, session_id, signal_name, value) ==
    LET key == BaselineKey(session_id, signal_name)
        t == Touch(bl, key)
    IN  IF t[key].count = 0
        THEN [t EXCEPT ![key].mean = value, ![key].count = 1]
        ELSE [t EXCEPT ![key].mean = Ema(value, t[key].mean),
                       ![key].count = t[key].count + 1]

\* variant: the baseline is updated only inside the breach branch
DetectSignalOnBreach(acc, session_id, signal_name, numeric, breached, value, anomaly) ==
    LET zb == IF breached
              THEN ZScoreBaselines(acc.baselines, session_id, signal_name)
              ELSE acc.baselines
        found == anomaly @@
                 [ signal_name |-> signal_name,
                   baseline_expected |-> zb[BaselineKey(session_id, signal_name)].mean,
                   z_score |-> ComputeZScore(acc.baselines, session_id, signal_name, value) ]
    IN  IF acc.raised \/ ~numeric
        THEN [anomalies |-> acc.anomalies, baselines |-> acc.baselines, raised |-> TRUE]
        ELSE [ anomalies |-> IF breached THEN Append(acc.anomalies, found)
                             ELSE acc.anomalies,
               baselines |-> IF breached
                             THEN UpdateBaseline(zb, session_id, signal_name, value)
                             ELSE zb,
               raised |-> FALSE ]

\* One signal of detect_anomalies: the anomaly (if the threshold is
\* breached) is built against the baseline before this sample, then the
\* baseline is updated.  Yields the anomalies found and the baselines.  The
\* threshold test raises TypeError on a value that is no number, and
\* nothing after it is executed.
DetectSignal(acc, session_id, signal_name, numeric, breached, value, anomaly) ==
    LET zb == IF breached
              THEN ZScoreBaselines(acc.baselines, session_id, signal_name)
              ELSE acc.baselines
        found == anomaly @@
                 [ signal_name |-> signal_name,
                   baseline_expected |-> zb[BaselineKey(session_id, signal_name)].mean,
                   z_score |-> ComputeZScore(acc.baselines, session_id, signal_name, value) ]
    IN  IF acc.raised \/ ~numeric
        THEN [anomalies |-> acc.anomalies, baselines |-> acc.baselines, raised |-> TRUE]
        ELSE [ anomalies |-> IF breached THEN Append(acc.anomalies, found)
                             ELSE acc.anomalies,
               baselines |-> UpdateBaseline(zb, session_id, signal_name, value),
               raised |-> FALSE ]

\* variant: a value equal to its threshold counts as a breach
ExceedsOrEquals(value, threshold) == value >= threshold

\* the breach tests of detect_anomalies: value > threshold for the high
\* thresholds, value < threshold for the low one
Exceeds(value, threshold) == value > threshold

DropsBelow(value, threshold) == value < threshold

\* variant: the secondary threshold is inclusive
CpuSeverityFrom95(cpu) == IF cpu >= 95 THEN "high" ELSE "medium"

\* the severity of a CPU anomaly
CpuSeverity(cpu) == IF cpu > 95 THEN "high" ELSE "medium"

\* AnomalyDetector.detect_anomalies
DetectAnomalies(bl, session_id, package) ==
    LET cpu == Get(package, "cpu_usage", 0)
        focus == Get(package, "focus_score", 50)
        net_total == Get(package, "bytes_sent", 0) + Get(package, "bytes_received", 0)
        keystroke_var == Get(package, "keystroke_rhythm_variance", 0)
        z_cpu == ComputeZScore(bl, session_id, "cpu_usage", Whole(cpu))
        a0 == [anomalies |-> <<>>, baselines |-> bl, raised |-> FALSE]
        a1 == DetectSignal(a0, session_id, "cpu_usage", IsNumber(package, "cpu_usage"),
                  Exceeds(cpu, ANOMALY_THRESHOLDS.cpu_usage_high), Whole(cpu),
                  [ modality |-> "system",
                    raw_value |-> Whole(cpu),
                    percentile_anomaly |-> RatMin(Whole(1), RatDiv(RatAbs(z_cpu), Whole(3))),
                    breach_magnitude |-> Whole(cpu - ANOMALY_THRESHOLDS.cpu_usage_high),
                    reason |-> <<"CPU usage exceeds threshold", cpu>>,
                    severity |-> CpuSeverity(cpu) ])
        a2 == DetectSignal(a1, session_id, "focus_score",
                  IsNumber(package, "focus_score"),
                  DropsBelow(focus, ANOMALY_THRESHOLDS.focus_score_low), Hundredths(focus),
                  [ modality |-> "focus",
                    raw_value |-> Hundredths(focus),
                    percentile_anomaly |-> Hundredths(100 - focus),
                    breach_magnitude |->
                        Hundredths(ANOMALY_THRESHOLDS.focus_score_low - focus),
                    reason |-> <<"Focus score drops below threshold", focus>>,
                    severity |-> IF focus < 20 THEN "alert" ELSE "warning" ])
        a3 == DetectSignal(a2, session_id, "network_activity",
                  IsNumber(package, "bytes_sent") /\ IsNumber(package, "bytes_received"),
                  Exceeds(net_total, ANOMALY_THRESHOLDS.network_bytes_30s_high),
                  Whole(net_total),
                  [ modality |-> "network",
                    raw_value |-> Whole(net_total),
                    percentile_anomaly |-> RatMin(Whole(1), Rat(net_total, 50 * MiB)),
                    breach_magnitude |->
                        Whole(net_total - ANOMALY_THRESHOLDS.network_bytes_30s_high),
                    reason |-> <<"Network activity exceeds baseline", net_total>>,
                    severity |-> "critical" ])
        a4 == DetectSignal(a3, session_id, "keystroke_rhythm",
                  IsNumber(package, "keystroke_rhythm_variance"),
                  Exceeds(keystroke_var, ANOMALY_THRESHOLDS.keystroke_rhythm_variance_high),
                  Hundredths(keystroke_var),
                  [ modality |-> "input",
                    raw_value |-> Hundredths(keystroke_var),
                    percentile_anomaly |-> Hundredths(keystroke_var),
                    breach_magnitude |-> Hundredths(keystroke_var
                        - ANOMALY_THRESHOLDS.keystroke_rhythm_variance_high),
                    reason |-> <<"Keystroke rhythm highly erratic">>,
                    severity |-> "high" ])
    IN  a4

(***************************************************************************)
(* Lists of numbers: the builtins and the statistics module.               *)
(***************************************************************************)
\* [p.get(field, default) for p in packages]
Column(buffer, field, default) ==
    [i \in 1..Len(buffer) |-> Get(buffer[i][2], field, default)]

RECURSIVE SumOf(_)
SumOf(values) == IF values = <<>> THEN 0 ELSE Head(values) + SumOf(Tail(values))

MaxOf(values) == CHOOSE v \in Range(values) : \A w \in Range(values) : w <= v
MinOf(values) == CHOOSE v \in Range(values) : \A w \in Range(values) : v <= w

\* statistics.mean and statistics.variance (the sample variance) of integers
MeanOf(values) == Rat(SumOf(values), Len(values))

VarianceOf(values) ==
    LET n == Len(values)
        squares == [i \in 1..n |-> values[i] * values[i]]
    IN  Rat(n * SumOf(squares) - SumOf(values) * SumOf(values), n * (n - 1))

(***************************************************************************)
(* RulesEngine.                                                            *)
(***************************************************************************)
Reasons(anomalies, signals) ==
    LET hits == SelectSeq(anomalies, LAMBDA a : a.signal_name \in signals)
    IN  [i \in 1..Len(hits) |-> hits[i].reason]

AnyOf(seq, Test(_)) == \E i \in 1..Len(seq) : Test(seq[i])

TriggeredRule(rule_id, evidence) ==
    [rule_id |-> rule_id, severity |-> RULES[rule_id].severity, evidence |-> evidence]

\* variant: only a critical rule escalates
ShouldEscalateCriticalOnly(triggered_rules) ==
    AnyOf(triggered_rules, LAMBDA rule : rule.severity \in {"critical"})

\* any(rule["severity"] in ["alert", "critical"] for rule in triggered_rules)
ShouldEscalate(triggered_rules) ==
    AnyOf(triggered_rules, LAMBDA rule : rule.severity \in {"alert", "critical"})

\* variant: any anomaly of the network signal fires the rule
NetworkAnomalyFiresAnySeverity(anomalies) ==
    AnyOf(anomalies, LAMBDA a : a.signal_name = "network_activity")

\* the condition of the network_anomaly rule
NetworkAnomalyFires(anomalies) ==
    AnyOf(anomalies, LAMBDA a : /\ a.signal_name = "network_activity"
                                /\ a.severity = "critical")

\* variant: only a CPU anomaly fires the rule
ResourceSpikeFiresCpuOnly(anomalies) ==
    AnyOf(anomalies, LAMBDA a : a.signal_name \in {"cpu_usage"})

\* the condition of the resource_spike rule
ResourceSpikeFires(anomalies) ==
    AnyOf(anomalies, LAMBDA a : a.signal_name \in {"cpu_usage", "network_activity"})

\* variant: one of the two conditions is enough
DistractionBurstFiresEither(package) ==
    \/ Get(package, "app_switches", 0) > ANOMALY_THRESHOLDS.app_switches_per_minute_high
    \/ Get(package, "focus_score", 50) < ANOMALY_THRESHOLDS.focus_score_low

\* the condition of the distraction_burst rule
DistractionBurstFires(package) ==
    /\ Get(package, "app_switches", 0) > ANOMALY_THRESHOLDS.app_switches_per_minute_high
    /\ Get(package, "focus_score", 50) < ANOMALY_THRESHOLDS.focus_score_low

\* variant: the mouse counts as idle from 20 seconds on
PauseInconsistentFiresFromTwenty(package) ==
    /\ Get(package, "keystroke_rhythm_variance", 0)
          > ANOMALY_THRESHOLDS.keystroke_rhythm_variance_high
    /\ Get(package, "mouse_idle_duration", 0) >= 20

\* the condition of the pause_inconsistent rule
PauseInconsistentFires(package) ==
    /\ Get(package, "keystroke_rhythm_variance", 0)
          > ANOMALY_THRESHOLDS.keystroke_rhythm_variance_high
    /\ Get(package, "mouse_idle_duration", 0) > 20

\* the rules appended by RulesEngine.evaluate, in the order of the source
TriggeredRules(package, anomalies) ==
    LET app_switches == Get(package, "app_switches", 0)
        focus == Get(package, "focus_score", 50)
        keystroke_var == Get(package, "keystroke_rhythm_variance", 0)
        mouse_idle == Get(package, "mouse_idle_duration", 0)
        resource ==
            IF ResourceSpikeFires(anomalies)
            THEN << TriggeredRule("resource_spike",
                        Reasons(anomalies, {"cpu_usage", "network_activity"})) >>
            ELSE <<>>
        distraction ==
            IF DistractionBurstFires(package)
            THEN << TriggeredRule("distraction_burst",
                        << <<"App switches", app_switches>>, <<"Focus score", focus>> >>) >>
            ELSE <<>>
        pause ==
            IF PauseInconsistentFires(package)
            THEN << TriggeredRule("pause_inconsistent",
                        << <<"Keystroke variance", keystroke_var>>,
                           <<"Mouse idle", mouse_idle>> >>) >>
            ELSE <<>>
        network ==
            IF NetworkAnomalyFires(anomalies)
            THEN << TriggeredRule("network_anomaly",
                        Reasons(anomalies, {"network_activity"})) >>
            ELSE <<>>
    IN  resource \o distraction \o pause \o network

\* the comparisons of evaluate that raise TypeError: those evaluated on a
\* value that is no number
EvaluateRaises(package) ==
    \/ ~IsNumber(package, "app_switches")
    \/ /\ Get(package, "app_switches", 0) > ANOMALY_THRESHOLDS.app_switches_per_minute_high
       /\ ~IsNumber(package, "focus_score")
    \/ ~IsNumber(package, "keystroke_rhythm_variance")
    \/ /\ Get(package, "keystroke_rhythm_variance", 0)
             > ANOMALY_THRESHOLDS.keystroke_rhythm_variance_high
       /\ ~IsNumber(package, "mouse_idle_duration")

\* variant: the app switches are those of the session's 60 s window
EvaluateOverWindow(session_id, device_id, package, anomalies) ==
    LET buffer == Buffer(windows_60s, Key(session_id, device_id))
        app_switches == SumOf(Column(buffer, "app_switches", 0))
        triggered_rules ==
            TriggeredRules([app_switches |-> app_switches] @@ package, anomalies)
    IN  [ triggered_rules |-> triggered_rules,
          should_escalate |-> ShouldEscalate(triggered_rules) ]

\* RulesEngine.evaluate
Evaluate(session_id, device_id, package, anomalies) ==
    LET triggered_rules == TriggeredRules(package, anomalies)
    IN  [ triggered_rules |-> triggered_rules,
          should_escalate |-> ShouldEscalate(triggered_rules) ]

(***************************************************************************)
(* GeminiAnalyzer.                                                         *)
(***************************************************************************)
Count(seq, Test(_)) == Cardinality({ i \in 1..Len(seq) : Test(seq[i]) })

\* GeminiAnalyzer._fallback_analysis; confidence is kept in tenths
FallbackAnalysis(package, anomalies, triggered_rules) ==
    LET high_severity_count == Count(anomalies, LAMBDA a : a.severity = "critical")
        network_bytes == Get(package, "bytes_sent", 0)
        app_switches == Get(package, "app_switches", 0)
        focus_score == Get(package, "focus_score", 50)
        cpu_usage == Get(package, "cpu_usage", 0)
        memory_usage == Get(package, "memory_usage", 0)
        v0 == [suspected_activity |-> "none", confidence |-> 0, evidence |-> <<>>]
        v1 == IF network_bytes > 5 * MiB
              THEN [ suspected_activity |-> "network_exfiltration_attempt",
                     confidence |-> 6,
                     evidence |-> Append(v0.evidence, <<"High network upload", network_bytes>>) ]
              ELSE v0
        v2 == IF app_switches > 10
              THEN [ suspected_activity |-> "tab_switching_excessive",
                     confidence |-> 5,
                     evidence |-> Append(v1.evidence, <<"Excessive app switches", app_switches>>) ]
              ELSE v1
        v3 == IF focus_score < 30 /\ high_severity_count > 0
              THEN [ suspected_activity |-> "unauthorized_resource_access",
                     confidence |-> 4,
                     evidence |-> Append(v2.evidence, <<"Low focus score", focus_score>>) ]
              ELSE v2
        v4 == IF cpu_usage > 90 \/ memory_usage > 85
              THEN [ suspected_activity |->
                         IF v3.suspected_activity = "none"
                         THEN "technical_issue" ELSE v3.suspected_activity,
                     confidence |->
                         IF v3.suspected_activity = "none" THEN 3 ELSE v3.confidence,
                     evidence |-> Append(v3.evidence,
                                         <<"Resource spike", cpu_usage, memory_usage>>) ]
              ELSE v3
        evidence == v4.evidence \o
                    [i \in 1..(IF Len(anomalies) < 3 THEN Len(anomalies) ELSE 3) |->
                        anomalies[i].reason]
    IN  [ suspected_activity |-> v4.suspected_activity,
          confidence |-> v4.confidence,
          why_suspected |-> "API IS NOT PROVIDED - Using basic rule-based detection",
          evidence |-> IF evidence # <<>> THEN evidence
                       ELSE << <<"No significant anomalies detected">> >>,
          recommendation |-> "Review student activity manually",
          tokens_used |-> 0,
          model_version |-> "fallback-rule-based" ]

\* the dictionary returned by the except branch of GeminiAnalyzer.analyze
ServiceErrorAnalysis ==
    [ suspected_activity |-> "technical_issue",
      confidence |-> 0,
      why_suspected |-> "Analysis service error",
      evidence |-> << <<"str(e)">> >>,
      recommendation |-> "Review manually",
      tokens_used |-> 0,
      model_version |-> "gemini-1.5-flash" ]

\* The JSON objects the remote model may answer with.  analyze stores
\* tokens_used and model_version into whatever object it parsed.
GeminiAnswers ==
    { [ suspected_activity |-> a, confidence |-> c, why_suspected |-> "model text",
        evidence |-> << <<"model evidence">> >>, recommendation |-> "model text" ]
        : a \in {"none", "impersonation"}, c \in {9} }

GeminiAnalysis(answer) ==
    [tokens_used |-> 0, model_version |-> "gemini-1.5-flash"] @@ answer

AggPackages ==
    { Package(s, d, t, m) : s \in SessionIds, d \in DeviceIds, t \in Timestamps,
                            m \in {Quiet, ScenarioB} }

\* a caller invoking AggregationEngine.ingest
Ingest(package) ==
    /\ calls < MaxIngest
    /\ calls' = calls + 1
    /\ EngineIngest(package.session_id, package.device_id, package)
    /\ UNCHANGED <<pipeVars, last_eval, loopVars, trackVars, probeVars, sideVars>>

(***************************************************************************)
(* AggregationWindow.get_aggregated_stats and AggregationEngine.get_stats. *)
(***************************************************************************)
\* the dictionary get_aggregated_stats returns for an empty buffer
EmptyStats == <<>>

\* variant: the statistics are computed for an empty buffer as well
GetAggregatedStatsUnguarded(buffer) ==
    [ package_count |-> Len(buffer),
      cpu_mean |-> Whole(0), cpu_max |-> 0, cpu_variance |-> Whole(0),
      focus_mean |-> Hundredths(50), focus_min |-> 50,
      network_bytes_total |-> NetworkBytesTotal(buffer),
      app_switches_total |-> SumOf(Column(buffer, "app_switches", 0)),
      keystroke_rhythm_mean_variance |-> Whole(0) ]

\* AggregationWindow.get_aggregated_stats; focus and keystroke values are
\* in hundredths
GetAggregatedStats(buffer) ==
    IF buffer = <<>> THEN EmptyStats
    ELSE LET cpu_values == Column(buffer, "cpu_usage", 0)
             focus_values == Column(buffer, "focus_score", 50)
             keystroke_vars == Column(buffer, "keystroke_rhythm_variance", 0)
         IN  [ package_count |-> Len(buffer),
               cpu_mean |-> MeanOf(cpu_values),
               cpu_max |-> MaxOf(cpu_values),
               cpu_variance |-> IF Len(cpu_values) > 1 THEN VarianceOf(cpu_values)
                                ELSE Whole(0),
               focus_mean |-> MeanOf(focus_values),
               focus_min |-> MinOf(focus_values),
               network_bytes_total |-> NetworkBytesTotal(buffer),
               app_switches_total |-> SumOf(Column(buffer, "app_switches", 0)),
               keystroke_rhythm_mean_variance |-> MeanOf(keystroke_vars) ]

WindowNames == {"30s", "60s", "5m", "1h"}

\* self.windows_X[key]: the lookup creates the window of an absent key
Looked(windows, key) == Store(windows, key, Buffer(windows, key))

\* a caller invoking AggregationEngine.get_stats
GetStats(session_id, device_id, window_name) ==
    LET key == Key(session_id, device_id)
        windows == CASE window_name = "30s" -> windows_30s
                     [] window_name = "60s" -> windows_60s
                     [] window_name = "5m" -> windows_5m
                     [] OTHER -> <<>>
        known == window_name \in {"30s", "60s", "5m"}
    IN  /\ windows_30s' = IF window_name = "30s" THEN Looked(windows_30s, key)
                          ELSE windows_30s
        /\ windows_60s' = IF window_name = "60s" THEN Looked(windows_60s, key)
                          ELSE windows_60s
        /\ windows_5m' = IF window_name = "5m" THEN Looked(windows_5m, key)
                         ELSE windows_5m
        /\ last_stats' = [ session_id |-> session_id, device_id |-> device_id,
                           key |-> key, window_name |-> window_name,
                           buffer |-> Buffer(windows, key),
                           result |-> IF known
                                      THEN GetAggregatedStats(Buffer(windows, key))
                                      ELSE EmptyStats ]
        /\ UNCHANGED <<ingested, last_ingest, calls, pipeVars, last_eval, loopVars,
                       trackVars, probes, sideVars>>

StatsPackages ==
    { Package("s1", "d1", t, m) : t \in {<<0, 0>>, <<1, 1>>},
                                  m \in {Quiet, ScenarioB, ScenarioC} }

\* samples of pairs whose ids contain the separator of the key
SharedPackages ==
    { Package(s, d, <<0, 0>>, m) : s \in SessionIds, d \in DeviceIds,
                                   m \in {Quiet, ScenarioB} }

(***************************************************************************)
(* A caller invoking RulesEngine.evaluate on an arbitrary anomaly list.    *)
(***************************************************************************)
SignalNames == {"cpu_usage", "focus_score", "network_activity", "keystroke_rhythm"}

GivenAnomalies ==
    { [signal_name |-> n, severity |-> v, reason |-> <<n, v>>]
        : n \in SignalNames, v \in {"medium", "critical"} }
    \cup { [signal_name |-> "focus_score", severity |-> "alert",
            reason |-> <<"focus_score", "alert">>] }

AnomalyLists ==
    {<<>>} \cup { <<a>> : a \in GivenAnomalies }
           \cup { <<a, b>> : a \in GivenAnomalies, b \in GivenAnomalies }

Metrics == {Quiet, ScenarioA, ScenarioB, ScenarioC, PauseBurst,
            SwitchesOnly, LowFocusOnly, KeystrokeOnly, IdleOnly}

EvalPackages ==
    { Package("s1", "d1", <<0, 0>>, m) : m \in Metrics }

EvaluateCall(package, anomalies) ==
    /\ last_eval' = [package |-> package, anomalies |-> anomalies] @@
                    Evaluate(package.session_id, package.device_id, package, anomalies)
    /\ UNCHANGED <<aggVars, pipeVars, calls, loopVars, trackVars, probeVars, sideVars>>

\* a caller invoking RulesEngine.evaluate of a running pipeline
ProbeAnomalies ==
    { <<>>,
      << [signal_name |-> "network_activity", severity |-> "critical",
          reason |-> <<"network_activity", "critical">>] >> }

ProbePackages == { Package("s1", "d1", <<0, 0>>, m) : m \in {Quiet, ScenarioC} }

EvaluateProbe(package, anomalies) ==
    /\ Len(probes) < MaxProbes
    /\ probes' = Append(probes,
                     [package |-> package, anomalies |-> anomalies] @@
                     Evaluate(package.session_id, package.device_id, package, anomalies))
    /\ UNCHANGED <<aggVars, pipeVars, calls, last_eval, loopVars, trackVars, last_stats,
                   sideVars>>

(***************************************************************************)
(* MonitoringPipeline.process_package, called by handler for a Package     *)
(* message.  The coroutine runs without suspension up to the call of the   *)
(* remote model inside GeminiAnalyzer.analyze, which is a synchronous      *)
(* call: the event loop runs nothing else until it returns.                *)
(***************************************************************************)
\* rows of the Device table
RegisteredDevices == {"d1"}

RECURSIVE RatSum(_)
RatSum(seq) ==
    IF seq = <<>> THEN Whole(0)
    ELSE LET x == Head(seq)
             y == RatSum(Tail(seq))
         IN  Rat(x[1] * y[2] + y[1] * x[2], x[2] * y[2])

\* statistics.mean
Mean(seq) == RatDiv(RatSum(seq), Whole(Len(seq)))

\* step 7 of process_package: the flagged_report dictionary
FlaggedReport(package, anomalies, triggered_rules, gemini_analysis) ==
    [ session_id |-> package.session_id,
      device_id |-> package.device_id,
      timestamp |-> package.timestamp,
      anomalies |-> anomalies,
      composite_anomaly_score |->
          [ overall_score |->
                IF anomalies # <<>>
                THEN Mean([i \in 1..Len(anomalies) |-> anomalies[i].percentile_anomaly])
                ELSE Whole(0),
            dominant_anomalies |->
                [i \in 1..(IF Len(anomalies) < 3 THEN Len(anomalies) ELSE 3) |->
                    anomalies[i].signal_name] ],
      triggered_rules |-> triggered_rules,
      gemini_analysis |-> gemini_analysis,
      status |-> "new" ]

RawRow(package) ==
    IF package.device_id \in RegisteredDevices
    THEN << [device |-> package.device_id, reason |-> "raw_activity", data |-> package] >>
    ELSE <<>>

FlaggedRow(package, flagged_report) ==
    IF package.device_id \in RegisteredDevices
    THEN << [device |-> package.device_id, reason |-> "flagged_activity",
             data |-> flagged_report] >>
    ELSE <<>>

\* steps 7 and 8 of process_package and the reply of handler, for a call
\* whose analysis is gemini_analysis
Finish(rows, ctx, analyzer, gemini_analysis) ==
    LET flagged_report == FlaggedReport(ctx.package, ctx.anomalies,
                                        ctx.triggered_rules, gemini_analysis)
    IN  /\ reports' = rows \o FlaggedRow(ctx.package, flagged_report)
        /\ broadcasts' = Append(broadcasts, flagged_report)
        /\ responses' = Append(responses, "Package processed and flagged")
        /\ handled' = Append(handled, ctx @@ [analyzer |-> analyzer,
                                              result |-> flagged_report])

PipePackages ==
    { Package(s, d, t, m) : s \in SessionIds, d \in DeviceIds,
                            t \in {<<0, 0>>, <<0, 31>>},
                            m \in {Quiet, ScenarioB, ScenarioC} }

\* an exception leaves process_package before the analysis and is answered
\* by the except clause of handler
Raise(package) ==
    /\ responses' = Append(responses, "Server error")
    /\ handled' = Append(handled,
                      [ package |-> package, anomalies |-> <<>>,
                        triggered_rules |-> <<>>, should_escalate |-> FALSE,
                        analyzer |-> "not reached", result |-> Raised ])

ProcessPackage(package) ==
    LET session_id == package.session_id
        device_id == package.device_id
        rows == reports \o RawRow(package)
        detected == DetectAnomalies(baselines, session_id, package)
        anomalies == detected.anomalies
        decision == Evaluate(session_id, device_id, package, anomalies)
        ctx == [ package |-> package, anomalies |-> anomalies,
                 triggered_rules |-> decision.triggered_rules,
                 should_escalate |-> decision.should_escalate ]
    IN  /\ pc = "idle"
        /\ calls < MaxPackages
        /\ calls' = calls + 1
        /\ UNCHANGED <<api_available, loopVars, trackVars, probeVars, sideVars>>
        /\ IF ~IsIsoFormat(package.timestamp)
           THEN /\ Raise(package)
                /\ UNCHANGED <<aggVars, baselines, last_eval, reports, pc, pending,
                               broadcasts>>
           ELSE IF detected.raised \/ EvaluateRaises(package)
           THEN /\ reports' = rows
                /\ EngineIngest(session_id, device_id, package)
                /\ baselines' = detected.baselines
                /\ Raise(package)
                /\ UNCHANGED <<last_eval, pc, pending, broadcasts>>
           ELSE /\ EngineIngest(session_id, device_id, package)
                /\ baselines' = detected.baselines
                /\ last_eval' = [package |-> package, anomalies |-> anomalies] @@ decision
                /\ IF ~decision.should_escalate
                   THEN /\ reports' = rows
                        /\ responses' = Append(responses, "Package processed (clean)")
                        /\ handled' = Append(handled, ctx @@ [analyzer |-> "not called",
                                                              result |-> None])
                        /\ UNCHANGED <<pc, pending, broadcasts>>
                   ELSE IF ~api_available
                   THEN /\ Finish(rows, ctx, "unavailable",
                                  FallbackAnalysis(package, anomalies,
                                                   decision.triggered_rules))
                        /\ UNCHANGED <<pc, pending>>
                   ELSE /\ pc' = "analyzing"
                        /\ pending' = ctx
                        /\ reports' = rows
                        /\ UNCHANGED <<broadcasts, responses, handled>>

\* the remote model answers with a JSON object of the requested shape
AnalyzerAnswers(answer) ==
    /\ pc = "analyzing"
    /\ pc' = "idle"
    /\ pending' = NoCall
    /\ Finish(reports, pending, "answered", GeminiAnalysis(answer))
    /\ UNCHANGED <<aggVars, loopVars, trackVars, probeVars, sideVars, calls, baselines, api_available, last_eval>>

\* the answer raises JSONDecodeError, ValueError or AttributeError
AnalyzerMalformed ==
    /\ pc = "analyzing"
    /\ pc' = "idle"
    /\ pending' = NoCall
    /\ Finish(reports, pending, "malformed", ServiceErrorAnalysis)
    /\ UNCHANGED <<aggVars, loopVars, trackVars, probeVars, sideVars, calls, baselines, api_available, last_eval>>

\* the call raises any other exception (a transport error, a KeyError for a
\* JSON object without suspected_activity): it leaves process_package and is
\* answered by the except clause of handler
AnalyzerRaises ==
    /\ pc = "analyzing"
    /\ pc' = "idle"
    /\ pending' = NoCall
    /\ responses' = Append(responses, "Server error")
    /\ handled' = Append(handled, pending @@ [analyzer |-> "raised", result |-> Raised])
    /\ UNCHANGED <<aggVars, loopVars, trackVars, probeVars, sideVars, calls, baselines, api_available, reports, broadcasts,
                   last_eval>>

\* the remote model never answers: generate_content does not return
AnalyzerHangs ==
    /\ pc = "analyzing"
    /\ pc' = "hung"
    /\ UNCHANGED <<aggVars, loopVars, trackVars, probeVars, sideVars, calls, baselines, api_available, pending, reports,
                   broadcasts, responses, handled, last_eval>>

\* the samples of one session key used for the scenarios of the detector
ScenarioPackages ==
    { Package("s1", "d1", t, m) : t \in {<<0, 0>>, <<0, 1>>},
          m \in {Quiet, ScenarioA, ScenarioB, ScenarioC, PauseBurst, AtThresholds,
                 HalfLoad, AllBreaching, OutOfRange, NoMetrics, CpuHigh,
                 CpuAtSecondary} }

(***************************************************************************)
(* The handler coroutines of several connections on the one asyncio event  *)
(* loop of the server, with process_package taken statement by statement.  *)
(* A coroutine keeps the loop until it reaches an await that suspends;     *)
(* between the call of process_package and the end of rule evaluation      *)
(* there is none.  The analyzer of this instance is the rule-based one.    *)
(***************************************************************************)
Connections == {"c1", "c2"}

NoTask == "none"
Waiting == [at |-> "recv"]

LoopPackages ==
    { Package("s1", d, t, m) : d \in {"d1", "x:d1"}, t \in {<<0, 0>>, <<0, 31>>},
                               m \in {Quiet, ScenarioB} }

\* variant: coroutines preempt each other like threads
MayRunPreemptive(c) == TRUE

\* the event loop resumes a coroutine only when none is running, and the
\* running one continues until it suspends
MayRun(c) == running \in {NoTask, c}

Record(step, c) == Append(trace, [step |-> step, call |-> coroutines[c].call,
                                  conn |-> c,
                                  key |-> Key(coroutines[c].package.session_id,
                                              coroutines[c].package.device_id)])

Goto(c, at, locals) ==
    [coroutines EXCEPT ![c] = [at |-> at] @@ locals @@ coroutines[c]]

\* handler receives a Package message and calls process_package
Receive(c, package) ==
    /\ MayRun(c)
    /\ coroutines[c].at = "recv"
    /\ calls < MaxSamples
    /\ calls' = calls + 1
    /\ running' = c
    /\ coroutines' = [coroutines EXCEPT ![c] =
                        [at |-> "store", package |-> package, call |-> calls + 1]]
    /\ trace' = Append(trace, [step |-> "handed", call |-> calls + 1, conn |-> c,
                               key |-> Key(package.session_id, package.device_id)])
    /\ UNCHANGED <<aggVars, pipeVars, last_eval, trackVars, probeVars, sideVars>>

\* step 2: the raw row
StoreRaw(c) ==
    /\ MayRun(c)
    /\ coroutines[c].at = "store"
    /\ running' = c
    /\ reports' = reports \o RawRow(coroutines[c].package)
    /\ coroutines' = Goto(c, "ingest", <<>>)
    /\ UNCHANGED <<aggVars, trackVars, probeVars, sideVars, calls, baselines, api_available, pc, pending, broadcasts,
                   responses, handled, last_eval, trace>>

\* step 3: agg_engine.ingest
IngestStep(c) ==
    /\ MayRun(c)
    /\ coroutines[c].at = "ingest"
    /\ running' = c
    /\ EngineIngest(coroutines[c].package.session_id, coroutines[c].package.device_id,
                    coroutines[c].package)
    /\ coroutines' = Goto(c, "detect", <<>>)
    /\ trace' = Record("window", c)
    /\ UNCHANGED <<pipeVars, calls, last_eval, trackVars, probeVars, sideVars>>

\* step 4: anomaly_detector.detect_anomalies
DetectStep(c) ==
    LET package == coroutines[c].package
        detected == DetectAnomalies(baselines, package.session_id, package)
    IN  /\ MayRun(c)
        /\ coroutines[c].at = "detect"
        /\ running' = c
        /\ baselines' = detected.baselines
        /\ coroutines' = Goto(c, "evaluate", [anomalies |-> detected.anomalies])
        /\ trace' = Record("baseline", c)
        /\ UNCHANGED <<aggVars, trackVars, probeVars, sideVars, calls, api_available, pc, pending, reports, broadcasts,
                       responses, handled, last_eval>>

\* step 5: rules_engine.evaluate
EvaluateStep(c) ==
    LET package == coroutines[c].package
        anomalies == coroutines[c].anomalies
        decision == Evaluate(package.session_id, package.device_id, package, anomalies)
    IN  /\ MayRun(c)
        /\ coroutines[c].at = "evaluate"
        /\ running' = c
        /\ last_eval' = [package |-> package, anomalies |-> anomalies] @@ decision
        /\ coroutines' = Goto(c, "report", decision)
        /\ trace' = Record("rules", c)
        /\ UNCHANGED <<aggVars, pipeVars, calls, trackVars, probeVars, sideVars>>

\* steps 6 to 8 and the reply of handler; the coroutine suspends in ws.send
ReportStep(c) ==
    LET package == coroutines[c].package
        ctx == [ package |-> package, anomalies |-> coroutines[c].anomalies,
                 triggered_rules |-> coroutines[c].triggered_rules,
                 should_escalate |-> coroutines[c].should_escalate ]
    IN  /\ MayRun(c)
        /\ coroutines[c].at = "report"
        /\ running' = NoTask
        /\ coroutines' = [coroutines EXCEPT ![c] = Waiting]
        /\ IF ~ctx.should_escalate
           THEN /\ responses' = Append(responses, "Package processed (clean)")
                /\ handled' = Append(handled, ctx @@ [analyzer |-> "not called",
                                                      result |-> None])
                /\ UNCHANGED <<reports, broadcasts>>
           ELSE Finish(reports, ctx, "unavailable",
                       FallbackAnalysis(package, ctx.anomalies, ctx.triggered_rules))
        /\ UNCHANGED <<aggVars, trackVars, probeVars, sideVars, calls, baselines, api_available, pc, pending, last_eval,
                       trace>>

(***************************************************************************)
(* IEEE-754 binary64 arithmetic, for the rounding of update_baseline.      *)
(* The pipeline above carries exact values; here the moving average is     *)
(* computed as CPython computes it, in doubles with round-to-nearest,      *)
(* ties-to-even.  A natural number is a little-endian sequence of limbs in *)
(* base 2^15 without leading zeros; a non-negative double is m * 2^e with  *)
(* m of exactly 53 bits (zero is m = <<>>).  Subnormals, infinities and    *)
(* negative numbers do not occur for the values of the model.              *)
(***************************************************************************)
Base == 2^15
Precision == 53

RECURSIVE BNorm(_)
BNorm(a) == IF a # <<>> /\ a[Len(a)] = 0 THEN BNorm(SubSeq(a, 1, Len(a) - 1)) ELSE a

RECURSIVE BFromInt(_)
BFromInt(n) == IF n = 0 THEN <<>> ELSE <<n % Base>> \o BFromInt(n \div Base)

Limb(a, i) == IF i <= Len(a) THEN a[i] ELSE 0

RECURSIVE BAddFrom(_, _, _, _)
BAddFrom(a, b, i, carry) ==
    IF i > Len(a) /\ i > Len(b)
    THEN IF carry = 0 THEN <<>> ELSE <<carry>>
    ELSE LET sum == Limb(a, i) + Limb(b, i) + carry
         IN  <<sum % Base>> \o BAddFrom(a, b, i + 1, sum \div Base)

BAdd(a, b) == BAddFrom(a, b, 1, 0)

\* a - b for a >= b
RECURSIVE BSubFrom(_, _, _, _)
BSubFrom(a, b, i, borrow) ==
    IF i > Len(a) THEN <<>>
    ELSE LET d == Limb(a, i) - Limb(b, i) - borrow
         IN  IF d < 0 THEN <<d + Base>> \o BSubFrom(a, b, i + 1, 1)
                      ELSE <<d>> \o BSubFrom(a, b, i + 1, 0)

BSub(a, b) == BNorm(BSubFrom(a, b, 1, 0))

\* a * k for 0 <= k <= Base
RECURSIVE BMulSmallFrom(_, _, _, _)
BMulSmallFrom(a, k, i, carry) ==
    IF i > Len(a) THEN IF carry = 0 THEN <<>> ELSE <<carry>>
    ELSE LET p == a[i] * k + carry
         IN  <<p % Base>> \o BMulSmallFrom(a, k, i + 1, p \div Base)

BMulSmall(a, k) == BNorm(BMulSmallFrom(a, k, 1, 0))

BTimesBase(a) == IF a = <<>> THEN <<>> ELSE <<0>> \o a

RECURSIVE BMul(_, _)
BMul(a, b) ==
    IF a = <<>> \/ b = <<>> THEN <<>>
    ELSE BAdd(BMulSmall(a, b[1]), BTimesBase(BMul(a, Tail(b))))

\* quotient and remainder of limbs i.. of a by d, for 0 < d <= Base
RECURSIVE BDivSmallFrom(_, _, _)
BDivSmallFrom(a, d, i) ==
    IF i > Len(a) THEN [q |-> <<>>, r |-> 0]
    ELSE LET high == BDivSmallFrom(a, d, i + 1)
             cur == high.r * Base + a[i]
         IN  [q |-> <<cur \div d>> \o high.q, r |-> cur % d]

BDivSmall(a, d) ==
    LET x == BDivSmallFrom(a, d, 1) IN [q |-> BNorm(x.q), r |-> x.r]

\* a * 2^n and the floor of a / 2^n
BShl(a, n) ==
    IF a = <<>> THEN <<>>
    ELSE [i \in 1..(n \div 15) |-> 0] \o BMulSmall(a, 2^(n % 15))

BShr(a, n) ==
    IF n \div 15 >= Len(a) THEN <<>>
    ELSE BDivSmall(SubSeq(a, n \div 15 + 1, Len(a)), 2^(n % 15)).q

RECURSIVE IntBitLen(_)
IntBitLen(n) == IF n = 0 THEN 0 ELSE 1 + IntBitLen(n \div 2)

BBitLen(a) == IF a = <<>> THEN 0 ELSE 15 * (Len(a) - 1) + IntBitLen(a[Len(a)])

RECURSIVE BLessFrom(_, _, _)
BLessFrom(a, b, i) ==
    IF i = 0 THEN FALSE
    ELSE IF a[i] # b[i] THEN a[i] < b[i]
    ELSE BLessFrom(a, b, i - 1)

BLess(a, b) == IF Len(a) # Len(b) THEN Len(a) < Len(b) ELSE BLessFrom(a, b, Len(a))

Zero == [m |-> <<>>, e |-> 0]

\* the double nearest to m * 2^e, ties to the even mantissa
RoundToDouble(m, e) ==
    LET len == BBitLen(m)
    IN  IF len = 0 THEN Zero
        ELSE IF len <= Precision
        THEN [m |-> BShl(m, Precision - len), e |-> e - (Precision - len)]
        ELSE LET k == len - Precision
                 q2 == BShr(m, k - 1)
                 sticky == BShl(q2, k - 1) # m
                 half == q2[1] % 2 = 1
                 q == BShr(q2, 1)
                 up == half /\ (sticky \/ q[1] % 2 = 1)
                 r == IF up THEN BAdd(q, <<1>>) ELSE q
             IN  IF BBitLen(r) > Precision
                 THEN [m |-> BShr(r, 1), e |-> e + k + 1]
                 ELSE [m |-> r, e |-> e + k]

Lower(a, b) == IF a < b THEN a ELSE b

\* x * y, x + y and x - y (for x >= y) of doubles
FMul(x, y) == RoundToDouble(BMul(x.m, y.m), x.e + y.e)

FAdd(x, y) ==
    LET e == Lower(x.e, y.e)
    IN  RoundToDouble(BAdd(BShl(x.m, x.e - e), BShl(y.m, y.e - e)), e)

FSub(x, y) ==
    LET e == Lower(x.e, y.e)
    IN  RoundToDouble(BSub(BShl(x.m, x.e - e), BShl(y.m, y.e - e)), e)

\* float of the decimal literal n / d, for 0 <= n and 0 < d <= Base: the
\* quotient is taken to more than 53 bits with a sticky bit, then rounded
DoubleOf(n, d) ==
    LET qr == BDivSmall(BShl(BFromInt(n), 80), d)
    IN  RoundToDouble(BAdd(BShl(qr.q, 1), IF qr.r = 0 THEN <<>> ELSE <<1>>), -81)

\* variant: the old mean is not scaled down
EmaDoubleNoDecay(value, mean) ==
    FAdd(FMul(DoubleOf(1, 10), value), mean)

\* alpha * value + (1 - alpha) * baseline["mean"] with alpha = 0.1
EmaDouble(value, mean) ==
    LET alpha == DoubleOf(1, 10)
    IN  FAdd(FMul(alpha, value), FMul(FSub(DoubleOf(1, 1), alpha), mean))

\* the values of focus_score and cpu_usage fed to the double baseline
DoubleValues == { DoubleOf(n, 100) : n \in {0, 15, 30, 82, 9200} }

\* update_baseline on one baseline whose mean is a double
UpdateDouble(value) ==
    /\ tracker.count < MaxUpdates
    /\ tracker' = IF tracker.count = 0
                  THEN [count |-> 1, mean |-> value, value |-> value, before |-> Zero]
                  ELSE [count |-> tracker.count + 1,
                        mean |-> EmaDouble(value, tracker.mean),
                        value |-> value, before |-> tracker.mean]
    /\ UNCHANGED <<aggVars, pipeVars, loopVars, calls, last_eval, last_call, applied, probeVars, sideVars>>

(***************************************************************************)
(* A caller invoking compute_z_score and update_baseline of one            *)
(* AnomalyDetector directly.                                               *)
(***************************************************************************)
TrackedSignals == {"cpu_usage", "focus_score"}
TrackedValues == {Whole(0), Hundredths(15), Hundredths(82), Whole(92)}

Applied(key) == IF key \in DOMAIN applied THEN applied[key] ELSE 0

UpdateCall(session_id, signal_name, value) ==
    LET key == BaselineKey(session_id, signal_name)
    IN  /\ calls < MaxCalls
        /\ calls' = calls + 1
        /\ baselines' = UpdateBaseline(baselines, session_id, signal_name, value)
        /\ applied' = [k \in DOMAIN applied \cup {key} |->
                          IF k = key THEN Applied(key) + 1 ELSE applied[k]]
        /\ last_call' = [op |-> "update_baseline", key |-> key, value |-> value,
                         before |-> baselines, first |-> Applied(key) = 0]
        /\ UNCHANGED <<aggVars, loopVars, api_available, pc, pending, reports,
                       broadcasts, responses, handled, last_eval, tracker, probeVars, sideVars>>

ZScoreCall(session_id, signal_name, value) ==
    /\ calls < MaxCalls
    /\ calls' = calls + 1
    /\ baselines' = ZScoreBaselines(baselines, session_id, signal_name)
    /\ last_call' = [op |-> "compute_z_score",
                     key |-> BaselineKey(session_id, signal_name), value |-> value,
                     before |-> baselines,
                     result |-> ComputeZScore(baselines, session_id, signal_name, value)]
    /\ UNCHANGED <<aggVars, loopVars, api_available, pc, pending, reports,
                   broadcasts, responses, handled, last_eval, applied, tracker, probeVars, sideVars>>

\* everything but the baselines of the detector
InitOther ==
    /\ windows_30s = <<>>
    /\ windows_60s = <<>>
    /\ windows_5m = <<>>
    /\ ingested = <<>>
    /\ last_ingest = NoIngest
    /\ calls = 0
    /\ api_available \in BOOLEAN
    /\ pc = "idle"
    /\ pending = NoCall
    /\ reports = <<>>
    /\ broadcasts = <<>>
    /\ responses = <<>>
    /\ handled = <<>>
    /\ last_eval = NoEval
    /\ coroutines = [c \in Connections |-> Waiting]
    /\ running = NoTask
    /\ trace = <<>>
    /\ last_call = NoTrackerCall
    /\ applied = <<>>
    /\ tracker = NoTracker
    /\ last_stats = NoStats
    /\ probes = <<>>
    /\ connected_professors = <<>>
    /\ broadcasting = NoBroadcast
    /\ devices = <<>>
    /\ online = <<>>
    /\ history = <<>>

Init == InitOther /\ baselines = <<>>

\* an AggregationEngine or a RulesEngine used on its own has no analyzer
InitEngine == Init /\ ~api_available

NextAgg == \E package \in AggPackages : Ingest(package)

SpecAgg == InitEngine /\ [][NextAgg]_vars

NextRules ==
    \E package \in EvalPackages : \E anomalies \in AnomalyLists :
        EvaluateCall(package, anomalies)

SpecRules == InitEngine /\ [][NextRules]_vars

\* generate_content comes back in one of its three ways, and the coroutine
\* blocked in it runs on to the reply of handler
AnalyzerReturns ==
    \/ \E answer \in GeminiAnswers : AnalyzerAnswers(answer)
    \/ AnalyzerMalformed
    \/ AnalyzerRaises

NextPipe ==
    \/ \E package \in PipePackages : ProcessPackage(package)
    \/ \E answer \in GeminiAnswers : AnalyzerAnswers(answer)
    \/ AnalyzerMalformed
    \/ AnalyzerRaises
    \/ AnalyzerHangs

SpecPipe == Init /\ [][NextPipe]_vars

NextScenario ==
    \/ \E package \in ScenarioPackages : ProcessPackage(package)
    \/ \E answer \in GeminiAnswers : AnalyzerAnswers(answer)
    \/ AnalyzerMalformed
    \/ AnalyzerRaises
    \/ AnalyzerHangs

SpecScenario == Init /\ [][NextScenario]_vars

NextBaseline ==
    \E signal_name \in TrackedSignals : \E value \in TrackedValues :
        \/ UpdateCall("s1", signal_name, value)
        \/ ZScoreCall("s1", signal_name, value)

SpecBaseline == InitEngine /\ [][NextBaseline]_vars

\* compute_z_score as a function of the baseline record it finds: the
\* records a detector may hold for the key when it is called.  The std_dev
\* == 0 test of the source provides for records that update_baseline never
\* writes, so every dispersion is drawn here, not only the default 1.
GivenBaselines ==
    { <<>> } \cup
    { (BaselineKey("s1", "cpu_usage") :> [mean |-> m, std_dev |-> sd, count |-> n])
        : m \in {Whole(0), Whole(50)},
          sd \in {Whole(0), Rat(1, 2), Whole(1), Whole(2)},
          n \in {0, 3} }

InitZScore == InitOther /\ ~api_available /\ baselines \in GivenBaselines

NextZScore ==
    \E signal_name \in TrackedSignals : \E value \in TrackedValues :
        ZScoreCall("s1", signal_name, value)

SpecZScore == InitZScore /\ [][NextZScore]_vars

NextDouble == \E value \in DoubleValues : UpdateDouble(value)

SpecDouble == InitEngine /\ [][NextDouble]_vars

PurePackages ==
    { Package("s1", "d1", t, m) : t \in {<<0, 0>>, <<0, 1>>},
                                  m \in {Quiet, ScenarioB, ScenarioC} }

NextPure ==
    \/ \E package \in PurePackages : ProcessPackage(package)
    \/ AnalyzerReturns
    \/ \E package \in ProbePackages : \E anomalies \in ProbeAnomalies :
          EvaluateProbe(package, anomalies)

SpecPure == Init /\ [][NextPure]_vars

MalformedPackages ==
    { Package("s1", "d1", t, m) : t \in {<<0, 0>>, <<0, 61>>},
                                  m \in {Quiet, ScenarioB, TextCpu, TextFocus,
                                         TextSwitches} }

NextMalformed ==
    \/ \E package \in MalformedPackages : ProcessPackage(package)
    \/ AnalyzerReturns

SpecMalformed == Init /\ [][NextMalformed]_vars

(***************************************************************************)
(* FlagDetectionOrchestrator of the client: one PatternDetector, whose     *)
(* history holds the samples of every session handed to process_package.   *)
(* An entry carries the columns of the history deques that are read from   *)
(* the package (the stress_level column, computed from the same package,   *)
(* is not carried) and, as a history annotation the source does not keep,  *)
(* the session_id argument of the call that added it.                      *)
(***************************************************************************)
HISTORY_WINDOW == 5 * 60

HistoryEntry(session_id, package) ==
    [ session_id |-> session_id,
      timestamp |-> package.timestamp,
      keystroke_rhythm_variance |-> Get(package, "keystroke_rhythm_variance", 0),
      focus_score |-> Get(package, "focus_score", 50),
      network_bytes |-> Get(package, "bytes_sent", 0) + Get(package, "bytes_received", 0),
      cpu_usage |-> Get(package, "cpu_usage", 0),
      app_switches |-> Get(package, "app_switches", 0) ]

\* the while loop of add_activity: entries older than the cutoff leave at
\* the left end
RECURSIVE DropOld(_, _)
DropOld(entries, cutoff) ==
    IF entries # <<>> /\ FromIsoFormat(Head(entries).timestamp) < cutoff
    THEN DropOld(Tail(entries), cutoff)
    ELSE entries

\* PatternDetector.add_activity
AddActivity(entries, session_id, package) ==
    Append(DropOld(entries, FromIsoFormat(package.timestamp) - HISTORY_WINDOW),
           HistoryEntry(session_id, package))

ClientSessions == {"s1", "s2"}

ClientPackages ==
    { Package(s, "d1", t, m) : s \in ClientSessions, t \in {<<0, 0>>, <<5, 1>>},
                               m \in {Quiet, ScenarioC} }

\* FlagDetectionOrchestrator.process_package, as far as the history goes
ClientProcessPackage(package) ==
    /\ Len(history) < MaxActivity
    /\ history' = AddActivity(history, package.session_id, package)
    /\ UNCHANGED <<aggVars, pipeVars, calls, last_eval, loopVars, trackVars, probeVars,
                   connected_professors, broadcasting, devices, online>>

\* FlagDetectionOrchestrator.reset_session: a new PatternDetector
ResetSession(session_id) ==
    /\ history' = <<>>
    /\ UNCHANGED <<aggVars, pipeVars, calls, last_eval, loopVars, trackVars, probeVars,
                   connected_professors, broadcasting, devices, online>>

NextClient ==
    \/ \E package \in ClientPackages : ClientProcessPackage(package)
    \/ \E session_id \in ClientSessions : ResetSession(session_id)

SpecClient == InitEngine /\ [][NextClient]_vars

(***************************************************************************)
(* main.connected_professors and broadcast_to_professors.  The dict is     *)
(* held as the sequence of its entry slots in insertion order: a deleted   *)
(* key leaves a dummy slot behind and a new key takes a new slot at the    *)
(* end.  A professor's connection is identified with the professor id it   *)
(* registers.  The coroutine of broadcast_to_professors is suspended only  *)
(* at await ws.send(...); every other stretch of it runs without           *)
(* interruption.                                                           *)
(***************************************************************************)
Professors == {"p1", "p2"}

Deleted == "deleted"

LiveSlots(slots) == { i \in 1..Len(slots) : slots[i] # Deleted }

\* the keys of the dict
Registered(slots) == { slots[i] : i \in LiveSlots(slots) }

\* len(connected_professors)
Used(slots) == Cardinality(LiveSlots(slots))

\* del connected_professors[prof_id]
Remove(slots, prof_id) ==
    [i \in 1..Len(slots) |-> IF slots[i] = prof_id THEN Deleted ELSE slots[i]]

\* connected_professors[professor_id] = ws
Insert(slots, prof_id) ==
    IF prof_id \in Registered(slots) THEN slots ELSE Append(slots, prof_id)

\* next() of the iterator of connected_professors.items(): the iterator
\* raises RuntimeError when the dict has another size than at the start of
\* the iteration, or when it meets an entry after having yielded as many
\* as the dict held at the start
IterNext(it, slots) ==
    LET ahead == { i \in LiveSlots(slots) : i >= it.di_pos }
        i == CHOOSE j \in ahead : \A k \in ahead : j <= k
    IN  IF it.di_used # Used(slots) THEN [outcome |-> "RuntimeError"]
        ELSE IF ahead = {} THEN [outcome |-> "StopIteration"]
        ELSE IF it.len = 0 THEN [outcome |-> "RuntimeError"]
        ELSE [ outcome |-> "item", item |-> slots[i],
               it |-> [di_used |-> it.di_used, di_pos |-> i + 1, len |-> it.len - 1] ]

\* the second loop of broadcast_to_professors: del raises KeyError for a
\* professor that is no longer a key
RECURSIVE CleanUp(_, _)
CleanUp(slots, disconnected) ==
    IF disconnected = <<>> THEN [slots |-> slots, error |-> ""]
    ELSE IF Head(disconnected) \notin Registered(slots)
    THEN [slots |-> slots, error |-> "KeyError"]
    ELSE CleanUp(Remove(slots, Head(disconnected)), Tail(disconnected))

\* the coroutine runs from the head of the for loop to its next suspension
\* or to its end; yields its state and that of the dict
Advance(b, slots) ==
    LET next == IterNext(b.it, slots)
        cleaned == CleanUp(slots, b.disconnected)
    IN  IF next.outcome = "item"
        THEN [ broadcasting |-> [b EXCEPT !.at = "sending", !.to = next.item,
                                          !.it = next.it],
               slots |-> slots ]
        ELSE IF next.outcome = "RuntimeError"
        THEN [ broadcasting |-> [b EXCEPT !.at = "failed", !.to = "",
                                          !.error = "RuntimeError"],
               slots |-> slots ]
        ELSE IF cleaned.error # ""
        THEN [ broadcasting |-> [b EXCEPT !.at = "failed", !.to = "",
                                          !.error = cleaned.error],
               slots |-> cleaned.slots ]
        ELSE [ broadcasting |-> [b EXCEPT !.at = "done", !.to = ""],
               slots |-> cleaned.slots ]

sideOthers == <<aggVars, pipeVars, calls, last_eval, loopVars, trackVars, probeVars>>

\* process_package awaits broadcast_to_professors for a flagged report
StartBroadcast ==
    LET slots == connected_professors
        b == [ NoBroadcast EXCEPT
                 !.it = [di_used |-> Used(slots), di_pos |-> 1, len |-> Used(slots)],
                 !.start = Registered(slots) ]
        after == Advance(b, slots)
    IN  /\ broadcasting.at \in {"idle", "done", "failed"}
        /\ IF Used(slots) = 0
           THEN /\ broadcasting' = [b EXCEPT !.at = "done"]
                /\ UNCHANGED connected_professors
           ELSE /\ broadcasting' = after.broadcasting
                /\ connected_professors' = after.slots
        /\ UNCHANGED <<sideOthers, devices, online, history>>

\* await ws.send(...) returns, or raises because the connection is gone
SendReturns(ok) ==
    LET b == IF ok
             THEN [broadcasting EXCEPT !.sent = @ \cup {broadcasting.to}]
             ELSE [broadcasting EXCEPT !.disconnected = Append(@, broadcasting.to)]
        after == Advance(b, connected_professors)
    IN  /\ broadcasting.at = "sending"
        /\ broadcasting' = after.broadcasting
        /\ connected_professors' = after.slots
        /\ UNCHANGED <<sideOthers, devices, online, history>>

\* handler receives RegisterProfessor on a professor's connection
RegisterProfessor(professor_id) ==
    /\ professor_id \notin Registered(connected_professors)
    /\ Len(connected_professors) < MaxSlots
    /\ connected_professors' = Insert(connected_professors, professor_id)
    /\ UNCHANGED <<sideOthers, broadcasting, devices, online, history>>

\* the finally clause of handler when a professor's connection ends
ProfessorDisconnects(professor_id) ==
    /\ professor_id \in Registered(connected_professors)
    /\ connected_professors' = Remove(connected_professors, professor_id)
    /\ UNCHANGED <<sideOthers, broadcasting, devices, online, history>>

NextBroadcast ==
    \/ StartBroadcast
    \/ \E ok \in BOOLEAN : SendReturns(ok)
    \/ \E professor_id \in Professors : RegisterProfessor(professor_id)
    \/ \E professor_id \in Professors : ProfessorDisconnects(professor_id)

SpecBroadcast == InitEngine /\ [][NextBroadcast]_vars

(***************************************************************************)
(* device.Devices: the sessions of one Devices object.  devices maps a     *)
(* token to its session record and online maps a device id to a token.     *)
(* The rows of the Device table are fixed; the time stamps that forget     *)
(* writes to a row are not part of the state.                              *)
(***************************************************************************)
Tokens == 1..MaxTokens

Sockets == {"ws1", "ws2"}

AccessCodes == {"code1", "code2", "unknown"}

\* Device.get_or_none(Device.access_code == access_code): the id of the
\* row, or None
NoDevice == "None"

GetOrNone(access_code) ==
    IF access_code = "code1" THEN "d1"
    ELSE IF access_code = "code2" THEN "d2"
    ELSE NoDevice

\* utils.generate_token: a uuid4, held by no session
FreshTokens == Tokens \ DOMAIN devices

Without(f, key) == [k \in DOMAIN f \ {key} |-> f[k]]

\* get_all_devices: the is_online field of a device
IsOnline(device_id) == device_id \in DOMAIN online

Authenticate(ws, access_code) ==
    LET device_id == GetOrNone(access_code)
    IN  /\ FreshTokens # {}
        /\ IF device_id = NoDevice
           THEN UNCHANGED <<devices, online>>
           ELSE \E token \in FreshTokens :
                  /\ devices' = (token :> [session |-> ws, device_id |-> device_id])
                                   @@ devices
                  /\ online' = (device_id :> token) @@ online
        /\ UNCHANGED <<sideOthers, connected_professors, broadcasting, history>>

Forget(token) ==
    /\ IF token \in DOMAIN devices
       THEN LET device_id == devices[token].device_id
            IN  /\ online' = IF device_id \in DOMAIN online
                             THEN Without(online, device_id)
                             ELSE online
                /\ devices' = Without(devices, token)
       ELSE UNCHANGED <<devices, online>>
    /\ UNCHANGED <<sideOthers, connected_professors, broadcasting, history>>

NextDevices ==
    \/ \E ws \in Sockets, access_code \in AccessCodes : Authenticate(ws, access_code)
    \/ \E token \in Tokens : Forget(token)

SpecDevices == InitEngine /\ [][NextDevices]_vars

NextStats ==
    \/ \E package \in StatsPackages : Ingest(package)
    \/ \E device_id \in DeviceIds : \E window_name \in WindowNames :
          GetStats("s1", device_id, window_name)

SpecStats == InitEngine /\ [][NextStats]_vars

NextShared ==
    \/ \E package \in SharedPackages : Ingest(package)
    \/ \E session_id \in SessionIds : \E device_id \in DeviceIds :
          GetStats(session_id, device_id, "30s")

SpecShared == InitEngine /\ [][NextShared]_vars

NextLoop ==
    \E c \in Connections :
        \/ \E package \in LoopPackages : Receive(c, package)
        \/ StoreRaw(c)
        \/ IngestStep(c)
        \/ DetectStep(c)
        \/ EvaluateStep(c)
        \/ ReportStep(c)

SpecLoop == InitEngine /\ [][NextLoop]_vars


(***************************************************************************)
(* Properties of the aggregation windows.                                  *)
(***************************************************************************)
WindowMaps ==
    { [size |-> WINDOW_30S, map |-> windows_30s],
      [size |-> WINDOW_60S, map |-> windows_60s],
      [size |-> WINDOW_5M, map |-> windows_5m] }


StrictlyIncreasing(entries) ==
    \A i \in 1..(Len(entries) - 1) : entries[i][1] < entries[i + 1][1]

NonDecreasing(entries) ==
    \A i \in 1..(Len(entries) - 1) : entries[i][1] <= entries[i + 1][1]

InWindow(entries, size) ==
    SelectSeq(entries, LAMBDA e : e[1] >= Last(entries)[1] - size)

\* C2: for a key whose ingested timestamps are strictly increasing, after
\* ingesting a sample at time T every window of duration D holds exactly the
\* ingested samples with timestamp in [T - D, T], no more and no fewer.
C2_WindowHoldsExactlyRecent ==
    \A key \in DOMAIN ingested :
        StrictlyIncreasing(ingested[key]) =>
            \A w \in WindowMaps :
                /\ key \in DOMAIN w.map
                /\ w.map[key] = InWindow(ingested[key], w.size)

\* a key with increasing timestamps whose 30s window has evicted one sample
\* and kept the one lying exactly on the cutoff
C2_Witness ==
    \E key \in DOMAIN ingested :
        /\ StrictlyIncreasing(ingested[key])
        /\ Len(ingested[key]) = 3
        /\ Len(windows_30s[key]) = 2
        /\ windows_30s[key][1][1] = Last(ingested[key])[1] - WINDOW_30S
        /\ Len(windows_60s[key]) = 3

\* C3: after any sequence of ingest calls, out-of-order and duplicate
\* timestamps included, the entries of every window are in non-decreasing
\* timestamp order.
C3_WindowsSorted ==
    \A w \in WindowMaps : \A key \in DOMAIN w.map : NonDecreasing(w.map[key])

\* C4: after any sequence of ingest calls, no window of duration D holds an
\* entry older than (timestamp of the most recently ingested sample - D).
C4_NoStaleEntry ==
    \A key \in DOMAIN ingested :
        \A w \in WindowMaps :
            \A e \in Range(w.map[key]) : e[1] >= Last(ingested[key])[1] - w.size

\* C6: right after an ingest call the sample is the last entry of each of the
\* three windows of its key, whatever its timestamp.
C6_AppendedToAllWindows ==
    last_ingest # NoIngest =>
        \A w \in WindowMaps :
            /\ last_ingest.key \in DOMAIN w.map
            /\ w.map[last_ingest.key] # <<>>
            /\ Last(w.map[last_ingest.key]) = last_ingest.entry

\* the latest ingest carried a timestamp older than the entry before it
C6_Witness ==
    /\ last_ingest # NoIngest
    /\ \A w \in WindowMaps :
          /\ Len(w.map[last_ingest.key]) >= 2
          /\ w.map[last_ingest.key][Len(w.map[last_ingest.key]) - 1][1]
                > last_ingest.entry[1]

(***************************************************************************)
(* Properties of the rules engine.                                         *)
(***************************************************************************)
\* C1: evaluate returns should_escalate = TRUE exactly when at least one of
\* the returned triggered rules has severity alert or critical; with only
\* warning rules, or no rule, the decision is FALSE.
C1_EscalationGate ==
    last_eval # NoEval =>
        /\ last_eval.should_escalate <=>
              \E i \in 1..Len(last_eval.triggered_rules) :
                  last_eval.triggered_rules[i].severity \in {"alert", "critical"}
        /\ (\A i \in 1..Len(last_eval.triggered_rules) :
                last_eval.triggered_rules[i].severity = "warning")
              => ~last_eval.should_escalate

\* an evaluation that fired the alert rule and a warning rule, and escalated
C1_Witness ==
    /\ last_eval # NoEval
    /\ last_eval.should_escalate
    /\ \E i \in 1..Len(last_eval.triggered_rules) :
          last_eval.triggered_rules[i].severity = "warning"
    /\ \E i \in 1..Len(last_eval.triggered_rules) :
          last_eval.triggered_rules[i].severity = "alert"
    /\ \A i \in 1..Len(last_eval.triggered_rules) :
          last_eval.triggered_rules[i].severity # "critical"

(***************************************************************************)
(* Properties of the pipeline.                                             *)
(***************************************************************************)
\* the windows a sample of (session_id, device_id) is aggregated in
WindowsOf(session_id, device_id) ==
    << Buffer(windows_30s, Key(session_id, device_id)),
       Buffer(windows_60s, Key(session_id, device_id)),
       Buffer(windows_5m, Key(session_id, device_id)) >>

\* the baselines a sample of (session_id, device_id) is compared with
BaselinesOf(session_id, device_id) ==
    [ n \in SignalNames |->
        Touch(baselines, BaselineKey(session_id, n))[BaselineKey(session_id, n)] ]

\* C5: processing a sample of session key (s, d) changes no window and no
\* baseline of a different session key (s2, d2), a different device of the
\* same session included.
C5_OtherKeysUntouched ==
    [][ calls' = calls + 1 =>
          \A s2 \in SessionIds, d2 \in DeviceIds :
              <<s2, d2>> # <<last_ingest'.entry[2].session_id,
                             last_ingest'.entry[2].device_id>>
                => /\ WindowsOf(s2, d2)' = WindowsOf(s2, d2)
                   /\ BaselinesOf(s2, d2)' = BaselinesOf(s2, d2) ]_vars

\* C7: while the analyzer call of a flagged sample has not returned, a
\* further sample (of the same or of another session) can still be ingested.
C7_IngestionNotStalled ==
    (pc \in {"analyzing", "hung"} /\ calls < MaxPackages)
        => ENABLED (\E package \in PipePackages : ProcessPackage(package))

\* C8: every sample handed to process_package gets its acknowledgment, also
\* when the analyzer never responds: as long as a sample is unacknowledged,
\* the step that ends the wait on the analyzer and replies can be taken.
C8_AcknowledgmentNeverBlocked ==
    (Len(responses) < calls) => ENABLED AnalyzerReturns

IsFlaggedReport(result) == "gemini_analysis" \in DOMAIN result

\* C9: whenever the analyzer is unavailable or its call fails, the verdict
\* attached to the escalation is the one of the local fallback heuristic,
\* labelled as produced by fallback.
C9_FailureUsesFallback ==
    \A i \in 1..Len(handled) :
        handled[i].analyzer \in {"unavailable", "malformed", "raised"} =>
            /\ IsFlaggedReport(handled[i].result)
            /\ handled[i].result.gemini_analysis =
                  FallbackAnalysis(handled[i].package, handled[i].anomalies,
                                   handled[i].triggered_rules)
            /\ handled[i].result.gemini_analysis.model_version = "fallback-rule-based"

\* C10: the analyzer is invoked and a flagged report is built, stored and
\* broadcast only for an escalated sample; every escalated sample returns a
\* flagged report with a verdict; a non-escalated sample returns None.
C10_EscalationIsSoleGate ==
    /\ pending # NoCall => pending.should_escalate
    /\ \A i \in 1..Len(handled) :
          /\ handled[i].analyzer # "not called" <=> handled[i].should_escalate
          /\ handled[i].should_escalate =>
                /\ IsFlaggedReport(handled[i].result)
                /\ handled[i].result.gemini_analysis # None
          /\ ~handled[i].should_escalate => handled[i].result = None
    /\ Len(broadcasts) = Cardinality({ i \in 1..Len(handled) : handled[i].should_escalate })
    /\ \A i \in 1..Len(reports) :
          reports[i].reason = "flagged_activity" =>
              \E j \in 1..Len(handled) :
                  /\ handled[j].should_escalate
                  /\ handled[j].result = reports[i].data

(***************************************************************************)
(* Properties of concurrent process_package calls.                         *)
(***************************************************************************)
PipelineSteps == {"window", "baseline", "rules"}

\* the window update, baseline update and rule evaluation events of one key
StepsOf(key) ==
    SelectSeq(trace, LAMBDA e : e.step \in PipelineSteps /\ e.key = key)

LoopKeys == { Key(package.session_id, package.device_id) : package \in LoopPackages }

\* C11: within one session key the window update, the baseline updates and
\* the rule evaluation of a sample all run before any of these steps of
\* another sample, and the samples run in the order in which they were
\* handed to process_package (call numbers are given at hand-over, so the
\* steps of a key carry non-decreasing call numbers).
C11_SamplesProcessedWholeAndInOrder ==
    \A key \in LoopKeys :
        LET steps == StepsOf(key)
        IN  \A i, j \in 1..Len(steps) : i < j => steps[i].call <= steps[j].call

\* two connections have each put a whole sample of the same key through
C11_Witness ==
    \E key \in LoopKeys :
        LET steps == StepsOf(key)
        IN  /\ Len(steps) = 6
            /\ steps[1].conn # steps[6].conn
            /\ steps[1].call # steps[6].call
            /\ running = NoTask

(***************************************************************************)
(* Properties of detection and rule evaluation on the scenario samples.    *)
(***************************************************************************)
\* the metrics a package carries
MetricsOf(package) ==
    [f \in DOMAIN package \ {"session_id", "device_id", "timestamp"} |-> package[f]]

Evaluated(profile) ==
    /\ last_eval # NoEval
    /\ MetricsOf(last_eval.package) = profile

RuleIds(triggered_rules) == { triggered_rules[i].rule_id : i \in 1..Len(triggered_rules) }

SignalsOf(anomalies) == { anomalies[i].signal_name : i \in 1..Len(anomalies) }

\* detection of a Scenario A sample yields one CPU anomaly of severity
\* medium and the Resource Spike rule fires
ScenarioADetected ==
    /\ Len(last_eval.anomalies) = 1
    /\ last_eval.anomalies[1].signal_name = "cpu_usage"
    /\ last_eval.anomalies[1].severity = "medium"
    /\ "resource_spike" \in RuleIds(last_eval.triggered_rules)

\* C12 as stated: for a sample with cpu_usage = 92, focus_score = 0.82 and
\* no network traffic, detection yields a CPU anomaly of severity medium,
\* the Resource Spike rule fires, and the escalation decision is false.
C12_ScenarioANoEscalation ==
    Evaluated(ScenarioA) => (ScenarioADetected /\ ~last_eval.should_escalate)

\* C12 amended: for a sample with cpu_usage = 92, focus_score = 0.82 and no
\* network traffic, detection yields a CPU anomaly of severity medium, the
\* Resource Spike rule fires with its configured severity alert, and the
\* escalation decision is true.
C12_ScenarioAEscalates ==
    Evaluated(ScenarioA) =>
        /\ ScenarioADetected
        /\ \E i \in 1..Len(last_eval.triggered_rules) :
              /\ last_eval.triggered_rules[i].rule_id = "resource_spike"
              /\ last_eval.triggered_rules[i].severity = "alert"
        /\ last_eval.should_escalate

\* a Scenario A sample went through process_package and its report was built
C12_Witness ==
    /\ Evaluated(ScenarioA)
    /\ handled # <<>>
    /\ MetricsOf(Last(handled).package) = ScenarioA

HasCriticalNetworkAnomaly(anomalies) ==
    \E i \in 1..Len(anomalies) : /\ anomalies[i].signal_name = "network_activity"
                                 /\ anomalies[i].severity = "critical"

\* what detection and evaluation make of the first Scenario B sample of a session
ScenarioBSample == Package("s1", "d1", <<0, 0>>, ScenarioB)
ScenarioBAnomalies == DetectAnomalies(<<>>, "s1", ScenarioBSample).anomalies

\* C13: evaluate returns the Network Anomaly rule exactly when the anomaly
\* list holds a network_activity anomaly of severity critical; the rule
\* carries severity critical and the escalation decision of every such
\* evaluation is true; the 15 MiB sample of Scenario B is such a case.
C13_NetworkAnomalyRule ==
    /\ last_eval # NoEval =>
          /\ ("network_anomaly" \in RuleIds(last_eval.triggered_rules))
                <=> HasCriticalNetworkAnomaly(last_eval.anomalies)
          /\ \A i \in 1..Len(last_eval.triggered_rules) :
                last_eval.triggered_rules[i].rule_id = "network_anomaly" =>
                    /\ last_eval.triggered_rules[i].severity = "critical"
                    /\ last_eval.should_escalate
    /\ HasCriticalNetworkAnomaly(ScenarioBAnomalies)
    /\ Evaluate("s1", "d1", ScenarioBSample, ScenarioBAnomalies).should_escalate

\* the rule fired on a list that also holds a non-critical network anomaly
C13_Witness ==
    /\ last_eval # NoEval
    /\ "network_anomaly" \in RuleIds(last_eval.triggered_rules)
    /\ Len(last_eval.anomalies) = 2
    /\ last_eval.anomalies[1].signal_name = "network_activity"
    /\ last_eval.anomalies[1].severity = "medium"
    /\ MetricsOf(last_eval.package) = ScenarioB

\* the 30-second window of the key of the sample evaluated last
EvaluationWindow ==
    Buffer(windows_30s, Key(last_eval.package.session_id, last_eval.package.device_id))

\* C14: the network-activity anomaly is decided on the bytes_sent +
\* bytes_received total of the samples in the key's 30-second window: a
\* sample whose window total exceeds 10 MiB raises the anomaly although
\* every sample in the window is below 10 MiB (the claim counts a total of
\* exactly 10 MiB too; the refuting samples exceed it).
C14_NetworkDecidedOnWindowTotal ==
    (/\ last_eval # NoEval
     /\ NetworkBytesTotal(EvaluationWindow) > ANOMALY_THRESHOLDS.network_bytes_30s_high)
        => "network_activity" \in SignalsOf(last_eval.anomalies)

\* the signals of the sample evaluated last that lie at or beyond their
\* static thresholds (inclusive) or strictly beyond them
Breaching(inclusive) ==
    LET p == last_eval.package
        cpu == Get(p, "cpu_usage", 0)
        focus == Get(p, "focus_score", 50)
        net == Get(p, "bytes_sent", 0) + Get(p, "bytes_received", 0)
        keystroke == Get(p, "keystroke_rhythm_variance", 0)
        eq == IF inclusive THEN 0 ELSE 1
    IN  {n \in {"cpu_usage"} : cpu >= 90 + eq}
        \cup {n \in {"focus_score"} : focus <= 30 - eq}
        \cup {n \in {"network_activity"} : net >= 10 * MiB + eq}
        \cup {n \in {"keystroke_rhythm"} : keystroke >= 75 + eq}

\* C15 as stated: detect emits an anomaly for a signal exactly when the
\* value reaches its threshold inclusively (cpu_usage >= 90, focus_score <=
\* 0.3, network bytes >= 10 MiB, keystroke_rhythm_variance >= 0.75).
C15_InclusiveThresholds ==
    last_eval # NoEval => SignalsOf(last_eval.anomalies) = Breaching(TRUE)

\* C15 amended: detect emits one anomaly for a signal exactly when the
\* sample's value lies strictly beyond its threshold (cpu_usage > 90,
\* focus_score < 0.3, the sample's bytes > 10 MiB, keystroke_rhythm_variance
\* > 0.75); a value equal to its threshold produces no anomaly.
C15_StrictThresholds ==
    last_eval # NoEval =>
        /\ SignalsOf(last_eval.anomalies) = Breaching(FALSE)
        /\ Cardinality(SignalsOf(last_eval.anomalies)) = Len(last_eval.anomalies)

\* a sample with every signal at its threshold was evaluated after one that
\* breached a threshold
C15_Witness ==
    /\ Evaluated(AtThresholds)
    /\ last_eval.anomalies = <<>>
    /\ Len(handled) = 2
    /\ handled[1].anomalies # <<>>
    /\ MetricsOf(handled[2].package) = AtThresholds

(***************************************************************************)
(* Properties of the baselines.                                            *)
(***************************************************************************)
\* the samples of a session that process_package has taken in, in any key
SamplesOf(session_id) ==
    { <<k, i>> \in UNION { {k} \X (1..Len(ingested[k])) : k \in DOMAIN ingested } :
          ingested[k][i][2].session_id = session_id }

\* the value detect_anomalies observes for a signal of a package
Observed(package, signal_name) ==
    CASE signal_name = "cpu_usage" -> Whole(Get(package, "cpu_usage", 0))
      [] signal_name = "focus_score" -> Hundredths(Get(package, "focus_score", 50))
      [] signal_name = "network_activity" ->
            Whole(Get(package, "bytes_sent", 0) + Get(package, "bytes_received", 0))
      [] signal_name = "keystroke_rhythm" ->
            Hundredths(Get(package, "keystroke_rhythm_variance", 0))

\* C16: after n samples of a session each of its four baselines has been
\* updated n times (count = n), whether or not a sample breached the
\* signal's threshold; after the first sample its mean is the value observed.
C16_AllBaselinesUpdatedPerSample ==
    \A session_id \in SessionIds : \A signal_name \in SignalNames :
        LET n == Cardinality(SamplesOf(session_id))
            key == BaselineKey(session_id, signal_name)
        IN  /\ n = 0 => key \notin DOMAIN baselines
            /\ n > 0 => /\ key \in DOMAIN baselines
                        /\ baselines[key].count = n
            /\ n = 1 => \A s \in SamplesOf(session_id) :
                           baselines[key].mean = Observed(ingested[s[1]][s[2]][2], signal_name)

\* a session has had two samples, one breaching a threshold and one not
C16_Witness ==
    /\ Cardinality(SamplesOf("s1")) = 2
    /\ Len(handled) = 2
    /\ \E i, j \in 1..2 : /\ handled[i].anomalies # <<>>
                          /\ handled[j].anomalies = <<>>
                          /\ handled[i].package.session_id = "s1"
                          /\ handled[j].package.session_id = "s1"

\* (value + 9 * mean) / 10
ExpectedEma(value, mean) ==
    RatDiv(RatSum(<<value, Rat(9 * mean[1], mean[2])>>), Whole(10))

BaselineBefore(key) ==
    IF key \in DOMAIN last_call.before THEN last_call.before[key] ELSE NewBaseline

\* C17: update_baseline sets mean = value and count = 1 on the first
\* observation of a key; on every later one it sets mean = 0.1 * value +
\* 0.9 * mean and adds exactly 1 to count; count always equals the number
\* of updates applied to the baseline, and no other baseline changes.
C17_UpdateBaseline ==
    /\ last_call.op = "update_baseline" =>
          LET key == last_call.key
              old == BaselineBefore(key)
              new == baselines[key]
          IN  /\ IF last_call.first
                 THEN new.mean = last_call.value /\ new.count = 1
                 ELSE /\ new.mean = ExpectedEma(last_call.value, old.mean)
                      /\ new.count = old.count + 1
              /\ new.std_dev = old.std_dev
              /\ \A k \in DOMAIN baselines \ {key} :
                    k \in DOMAIN last_call.before /\ baselines[k] = last_call.before[k]
    /\ \A k \in DOMAIN baselines : baselines[k].count = Applied(k)

\* a third update of one baseline, with a value other than its mean
C17_Witness ==
    /\ last_call.op = "update_baseline"
    /\ baselines[last_call.key].count = 3
    /\ last_call.value # BaselineBefore(last_call.key).mean
    /\ baselines[last_call.key].mean # last_call.value

\* C20: when no baseline exists for a key, compute_z_score reads mean 0 and
\* std_dev 1, so the z-score is the raw value, and the entry it leaves
\* behind has count 0: the next update_baseline of the key still sets
\* mean = value and count = 1.
C20_NoBaselineYet ==
    /\ (/\ last_call.op = "compute_z_score"
        /\ last_call.key \notin DOMAIN last_call.before) =>
          /\ last_call.result = last_call.value
          /\ baselines[last_call.key].mean = Whole(0)
          /\ baselines[last_call.key].std_dev = Whole(1)
          /\ baselines[last_call.key].count = 0
    /\ (/\ last_call.op = "update_baseline"
        /\ last_call.first
        /\ last_call.key \in DOMAIN last_call.before) =>
          /\ baselines[last_call.key].mean = last_call.value
          /\ baselines[last_call.key].count = 1

\* the first update of a baseline follows a z-score computed for its key
C20_Witness ==
    /\ last_call.op = "update_baseline"
    /\ last_call.first
    /\ last_call.key \in DOMAIN last_call.before
    /\ last_call.value # Whole(0)

\* max(std_dev, 1)
FlooredDispersion(std_dev) == IF RatLess(std_dev, Whole(1)) THEN Whole(1) ELSE std_dev

ExactLeq(x, y) ==
    LET e == Lower(x.e, y.e)
    IN  ~BLess(BShl(y.m, y.e - e), BShl(x.m, x.e - e))

\* x * (1 + 2^-51) and x * (1 - 2^-51), exactly
Widened(x) == [m |-> BMul(x.m, BAdd(BShl(<<1>>, 51), <<1>>)), e |-> x.e - 51]
Narrowed(x) == [m |-> BMul(x.m, BSub(BShl(<<1>>, 51), <<1>>)), e |-> x.e - 51]

TrackerLow == IF ExactLeq(tracker.before, tracker.value) THEN tracker.before
              ELSE tracker.value
TrackerHigh == IF ExactLeq(tracker.before, tracker.value) THEN tracker.value
               ELSE tracker.before

\* C18 as stated: after each update with a value v the new mean lies
\* between the previous mean and v, both included; in particular a mean
\* equal to v stays v.
C18_MeanBetweenOldMeanAndValue ==
    tracker.count > 0 =>
        /\ ExactLeq(TrackerLow, tracker.mean)
        /\ ExactLeq(tracker.mean, TrackerHigh)

\* C18 amended: after each update with a value v the new mean lies between
\* the previous mean and v up to the rounding of the double arithmetic, that
\* is within the interval widened by the factor 1 -+ 2^-51 at its ends; a
\* mean equal to v may move off v by this rounding error.
C18_MeanBetweenUpToRounding ==
    tracker.count > 0 =>
        /\ ExactLeq(Narrowed(TrackerLow), tracker.mean)
        /\ ExactLeq(tracker.mean, Widened(TrackerHigh))

\* a mean equal to the value was updated with that value and moved
C18_Witness ==
    /\ tracker.count > 1
    /\ tracker.before = tracker.value
    /\ tracker.mean # tracker.value

(***************************************************************************)
(* Properties of get_stats.                                                *)
(***************************************************************************)
\* bytes_sent + bytes_received of the first n entries of a buffer
RECURSIVE BytesOfFirst(_, _)
BytesOfFirst(buffer, n) ==
    IF n = 0 THEN 0
    ELSE BytesOfFirst(buffer, n - 1) + Get(buffer[n][2], "bytes_sent", 0)
                                     + Get(buffer[n][2], "bytes_received", 0)

\* C21: get_stats on a window holding no sample, the window of a key that
\* never ingested anything included, returns the empty result; on a window
\* holding samples package_count is the number of its entries and
\* network_bytes_total the bytes_sent + bytes_received of exactly those.
C21_StatsOfWindow ==
    last_stats.window_name \in {"30s", "60s", "5m"} =>
        IF last_stats.buffer = <<>>
        THEN last_stats.result = <<>>
        ELSE /\ last_stats.result.package_count = Len(last_stats.buffer)
             /\ last_stats.result.network_bytes_total =
                    BytesOfFirst(last_stats.buffer, Len(last_stats.buffer))

\* statistics were asked for a key that never ingested, after another key
\* had filled its windows
C21_Witness ==
    /\ last_stats.window_name = "30s"
    /\ last_stats.key \notin DOMAIN ingested
    /\ last_stats.result = <<>>
    /\ \E k \in DOMAIN windows_30s : Len(windows_30s[k]) = 2

(***************************************************************************)
(* Properties of RulesEngine.evaluate as a function.                       *)
(***************************************************************************)
SameInputs(e, f) == e.package = f.package /\ e.anomalies = f.anomalies

SameDecision(e, f) ==
    /\ e.triggered_rules = f.triggered_rules
    /\ e.should_escalate = f.should_escalate

Positions(anomalies, signals) ==
    { i \in 1..Len(anomalies) : anomalies[i].signal_name \in signals }

\* the k-th smallest element of a set of positions
Nth(positions, k) ==
    CHOOSE i \in positions : Cardinality({ j \in positions : j <= i }) = k

\* the triggered rules of the given id
RulesOf(triggered_rules, rule_id) ==
    { triggered_rules[i] : i \in { j \in 1..Len(triggered_rules) :
                                     triggered_rules[j].rule_id = rule_id } }

\* C23: the Resource Spike rule is among the triggered rules exactly when
\* the anomaly list holds an anomaly of signal cpu_usage or
\* network_activity, and its evidence is the reasons of exactly those
\* anomalies, in the order of the list.
C23_ResourceSpikeRule ==
    last_eval # NoEval =>
        LET hits == Positions(last_eval.anomalies, {"cpu_usage", "network_activity"})
        IN  /\ ("resource_spike" \in RuleIds(last_eval.triggered_rules)) <=> hits # {}
            /\ \A rule \in RulesOf(last_eval.triggered_rules, "resource_spike") :
                  /\ Len(rule.evidence) = Cardinality(hits)
                  /\ \A k \in 1..Len(rule.evidence) :
                        rule.evidence[k] = last_eval.anomalies[Nth(hits, k)].reason

\* the rule fired on a list with a network anomaly and an anomaly of
\* another signal, and carries the one reason
C23_Witness ==
    /\ last_eval # NoEval
    /\ Len(last_eval.anomalies) = 2
    /\ last_eval.anomalies[1].signal_name = "focus_score"
    /\ last_eval.anomalies[2].signal_name = "network_activity"
    /\ \E rule \in RulesOf(last_eval.triggered_rules, "resource_spike") :
          rule.evidence = << last_eval.anomalies[2].reason >>

\* C24: the Distraction Burst rule is among the triggered rules exactly
\* when the sample's app_switches exceed 15 and its focus_score is below
\* 0.3, whatever the anomaly list holds; the sample of Scenario C fires it;
\* when it is the only triggered rule, the escalation decision is whether
\* the severity configured for it is alert or critical.
C24_DistractionBurstRule ==
    last_eval # NoEval =>
        /\ ("distraction_burst" \in RuleIds(last_eval.triggered_rules))
              <=> /\ Get(last_eval.package, "app_switches", 0) > 15
                  /\ Get(last_eval.package, "focus_score", 50) < 30
        /\ Evaluated(ScenarioC) =>
              "distraction_burst" \in RuleIds(last_eval.triggered_rules)
        /\ RuleIds(last_eval.triggered_rules) = {"distraction_burst"} =>
              (last_eval.should_escalate
                  <=> RULES["distraction_burst"].severity \in {"alert", "critical"})

\* Scenario C was evaluated with an anomaly list that triggers no rule of
\* its own, and Distraction Burst is the only rule
C24_Witness ==
    /\ Evaluated(ScenarioC)
    /\ SignalsOf(last_eval.anomalies) = {"focus_score"}
    /\ RuleIds(last_eval.triggered_rules) = {"distraction_burst"}
    /\ ~last_eval.should_escalate

\* C25: the Pause Inconsistency rule is among the triggered rules exactly
\* when the sample's keystroke_rhythm_variance exceeds 0.75 and its
\* mouse_idle_duration exceeds 20 seconds; a sample meeting one of the two
\* conditions only does not fire it.
C25_PauseInconsistencyRule ==
    last_eval # NoEval =>
        /\ ("pause_inconsistent" \in RuleIds(last_eval.triggered_rules))
              <=> /\ Get(last_eval.package, "keystroke_rhythm_variance", 0) > 75
                  /\ Get(last_eval.package, "mouse_idle_duration", 0) > 20
        /\ (Evaluated(KeystrokeOnly) \/ Evaluated(IdleOnly)) =>
              "pause_inconsistent" \notin RuleIds(last_eval.triggered_rules)

\* a sample with a keystroke variance of 0.8 and the mouse idle for exactly
\* 20 seconds was evaluated
C25_Witness ==
    /\ Evaluated(KeystrokeOnly)
    /\ "pause_inconsistent" \notin RuleIds(last_eval.triggered_rules)

(***************************************************************************)
(* Properties of the scores of the anomalies and of the flagged report.    *)
(***************************************************************************)
RatLeq(x, y) == ~RatLess(y, x)

\* the samples that process_package carried through to a flagged report
Flagged ==
    { i \in 1..Len(handled) :
        handled[i].analyzer \notin {"not called", "not reached", "raised"} }

PercentilesOf(anomalies) ==
    [i \in 1..Len(anomalies) |-> anomalies[i].percentile_anomaly]

\* the signals listed are those of three (or all, if fewer) anomalies none
\* of which scores lower than an anomaly left out
TopThree(dominant, anomalies) ==
    \E top \in SUBSET (1..Len(anomalies)) :
        /\ Cardinality(top) = (IF Len(anomalies) < 3 THEN Len(anomalies) ELSE 3)
        /\ \A i \in top : \A j \in (1..Len(anomalies)) \ top :
              RatLeq(anomalies[j].percentile_anomaly, anomalies[i].percentile_anomaly)
        /\ Len(dominant) = Cardinality(top)
        /\ Range(dominant) = { anomalies[i].signal_name : i \in top }

\* C26: in every flagged report the composite score is the mean of the
\* percentile_anomaly values of its anomalies (0 without anomalies) and
\* dominant_anomalies names the three anomalies (all of them if fewer) with
\* the highest percentile_anomaly.
C26_CompositeScoreAndTopThree ==
    \A i \in Flagged :
        LET report == handled[i].result
            score == report.composite_anomaly_score
        IN  /\ score.overall_score =
                   IF report.anomalies = <<>> THEN Whole(0)
                   ELSE RatDiv(RatSum(PercentilesOf(report.anomalies)),
                               Whole(Len(report.anomalies)))
            /\ TopThree(score.dominant_anomalies, report.anomalies)

\* C27: every anomaly that detect_anomalies produces has a
\* percentile_anomaly between 0 and 1.
C27_PercentileWithinUnitInterval ==
    \A i \in 1..Len(handled) : \A k \in 1..Len(handled[i].anomalies) :
        /\ RatLeq(Whole(0), handled[i].anomalies[k].percentile_anomaly)
        /\ RatLeq(handled[i].anomalies[k].percentile_anomaly, Whole(1))

(***************************************************************************)
(* Properties of process_package on malformed samples.                     *)
(***************************************************************************)
\* a sample with an unparseable timestamp or a metric that is no number
IsMalformed(package) ==
    \/ package.timestamp[1] \notin 0..59
    \/ package.timestamp[2] \notin 0..59
    \/ "strings" \in DOMAIN package

\* C28: a sample with an unparseable timestamp or a metric of the wrong
\* type does not make process_package fail: the call returns, the handler
\* answers that the package was processed, the sample has reached the
\* aggregation windows, and later samples are processed.
C28_MalformedSampleNeverFails ==
    \A i \in 1..Len(handled) :
        IsMalformed(handled[i].package) =>
            /\ handled[i].result # Raised
            /\ responses[i] # "Server error"
            /\ Key(handled[i].package.session_id, handled[i].package.device_id)
                  \in DOMAIN ingested

(***************************************************************************)
(* Properties of process_package on samples with missing fields.           *)
(***************************************************************************)
\* the value detect_anomalies reads for a signal that the sample lacks
NeutralValue(signal_name) ==
    IF signal_name = "focus_score" THEN Hundredths(50) ELSE Whole(0)

AllHandledAre(profile) ==
    /\ pc = "idle"
    /\ calls = Len(handled)
    /\ \A i \in 1..Len(handled) : MetricsOf(handled[i].package) = profile

\* C29: a sample that carries no metric raises no error, yields no
\* anomaly, triggers no rule and is not escalated: the call returns None
\* and the handler answers that the package is clean.  Its baselines are
\* updated with 0 for cpu, network and keystroke variance and with 0.5 for
\* focus: after only such samples every baseline has counted each of them
\* and has the neutral value as its mean, and after a quiet sample (cpu 50,
\* focus 0.82) followed by such a sample the cpu mean is 45 and the focus
\* mean is 0.788.
C29_MissingFieldsAreNeutral ==
    /\ \A i \in 1..Len(handled) :
          MetricsOf(handled[i].package) = NoMetrics =>
              /\ handled[i].result = None
              /\ responses[i] = "Package processed (clean)"
              /\ handled[i].anomalies = <<>>
              /\ handled[i].triggered_rules = <<>>
              /\ ~handled[i].should_escalate
    /\ (AllHandledAre(NoMetrics) /\ handled # <<>>) =>
          \A signal_name \in SignalNames :
              /\ BaselineKey("s1", signal_name) \in DOMAIN baselines
              /\ baselines[BaselineKey("s1", signal_name)].count = Len(handled)
              /\ baselines[BaselineKey("s1", signal_name)].mean = NeutralValue(signal_name)
    /\ ( /\ pc = "idle"
         /\ Len(handled) = 2
         /\ MetricsOf(handled[1].package) = Quiet
         /\ MetricsOf(handled[2].package) = NoMetrics ) =>
          /\ baselines[BaselineKey("s1", "cpu_usage")].mean = Whole(45)
          /\ baselines[BaselineKey("s1", "focus_score")].mean = Rat(788, 1000)
          /\ baselines[BaselineKey("s1", "network_activity")].count = 2

\* a sample without metrics was processed after a quiet one
C29_Witness ==
    /\ pc = "idle"
    /\ Len(handled) = 2
    /\ MetricsOf(handled[1].package) = Quiet
    /\ MetricsOf(handled[2].package) = NoMetrics
    /\ responses[2] = "Package processed (clean)"

(***************************************************************************)
(* Properties of the severities of the anomalies.                          *)
(***************************************************************************)
\* C30: a CPU anomaly has severity high when the sample's cpu_usage is
\* above 95 and medium for every other breaching value, 95 itself
\* included; a network anomaly has severity critical.
C30_AnomalySeverities ==
    \A i \in 1..Len(handled) : \A k \in 1..Len(handled[i].anomalies) :
        LET a == handled[i].anomalies[k]
            cpu == Get(handled[i].package, "cpu_usage", 0)
        IN  /\ a.signal_name = "cpu_usage" =>
                  /\ cpu > 95 => a.severity = "high"
                  /\ cpu <= 95 => a.severity = "medium"
            /\ a.signal_name = "network_activity" => a.severity = "critical"

\* a sample with cpu_usage 95 yielded a medium anomaly, one with 96 a high
\* one
C30_Witness ==
    /\ Len(handled) = 2
    /\ MetricsOf(handled[1].package) = CpuAtSecondary
    /\ SignalsOf(handled[1].anomalies) = {"cpu_usage"}
    /\ handled[1].anomalies[1].severity = "medium"
    /\ MetricsOf(handled[2].package) = CpuHigh
    /\ handled[2].anomalies[1].severity = "high"

(***************************************************************************)
(* Properties of a session reset.                                          *)
(***************************************************************************)
\* the entries that the calls for sessions other than session_id added
OfOtherSessions(entries, session_id) ==
    SelectSeq(entries, LAMBDA e : e.session_id # session_id)

\* C31: resetting one session empties the state of that session only: the
\* samples accumulated for every other session are still held after the
\* reset.
C31_ResetKeepsOtherSessions ==
    [][ \A session_id \in ClientSessions :
            ResetSession(session_id) =>
                OfOtherSessions(history', session_id) =
                    OfOtherSessions(history, session_id) ]_vars

(***************************************************************************)
(* Properties of the escalation decision inside the pipeline.              *)
(***************************************************************************)
\* the samples whose processing reached the rules engine
Decided == { i \in 1..Len(handled) : handled[i].analyzer # "not reached" }

\* C32: process_package escalates a sample exactly when the sample alone
\* yields a cpu_usage anomaly (cpu_usage above 90) or a network_activity
\* anomaly (bytes_sent + bytes_received above 10 MiB).  A sample whose
\* anomalies are all on focus_score or keystroke_rhythm, whatever their
\* severity, and a sample that fires only Distraction Burst or Pause
\* Inconsistency, is not escalated.
C32_EscalatesOnCpuOrNetworkOnly ==
    \A i \in Decided :
        LET package == handled[i].package
            signals == SignalsOf(handled[i].anomalies)
        IN  /\ handled[i].should_escalate <=>
                  \/ Get(package, "cpu_usage", 0) > 90
                  \/ Get(package, "bytes_sent", 0) + Get(package, "bytes_received", 0)
                        > 10 * MiB
            /\ handled[i].should_escalate <=>
                  signals \cap {"cpu_usage", "network_activity"} # {}
            /\ signals \subseteq {"focus_score", "keystroke_rhythm"} =>
                  ~handled[i].should_escalate
            /\ RuleIds(handled[i].triggered_rules)
                  \subseteq {"distraction_burst", "pause_inconsistent"} =>
                  ~handled[i].should_escalate

\* a sample with a focus anomaly of severity alert that fired Distraction
\* Burst, and one with a keystroke anomaly that fired Pause Inconsistency,
\* went through without escalation
C32_Witness ==
    /\ Len(handled) = 2
    /\ \E k \in 1..Len(handled[1].anomalies) :
          /\ handled[1].anomalies[k].signal_name = "focus_score"
          /\ handled[1].anomalies[k].severity = "alert"
    /\ RuleIds(handled[1].triggered_rules) = {"distraction_burst"}
    /\ SignalsOf(handled[2].anomalies) = {"keystroke_rhythm"}
    /\ RuleIds(handled[2].triggered_rules) = {"pause_inconsistent"}
    /\ ~handled[1].should_escalate
    /\ ~handled[2].should_escalate

(***************************************************************************)
(* Properties of a failing process_package call.                           *)
(***************************************************************************)
\* C33: a process_package call that fails with an error leaves the
\* aggregation windows and the baselines as they were before the sample.
C33_FailureLeavesNoTrace ==
    [][ ( /\ Len(handled') = Len(handled) + 1
          /\ Last(handled').analyzer = "not reached" )
            => UNCHANGED <<windows_30s, windows_60s, windows_5m, baselines>> ]_vars

(***************************************************************************)
(* Properties of the partition of the windows by session and device.       *)
(***************************************************************************)
\* C34: the statistics get_stats returns for a pair (session_id, device_id)
\* are computed over samples ingested for that pair only.
C34_PairsNeverShareWindows ==
    last_stats.window_name \in {"30s", "60s", "5m"} =>
        \A i \in 1..Len(last_stats.buffer) :
            /\ last_stats.buffer[i][2].session_id = last_stats.session_id
            /\ last_stats.buffer[i][2].device_id = last_stats.device_id

(***************************************************************************)
(* Properties of the order of scoring and baseline update.                 *)
(***************************************************************************)
\* the value of a signal that detect_anomalies reads from a sample
SignalValue(package, signal_name) ==
    CASE signal_name = "cpu_usage" -> Whole(Get(package, "cpu_usage", 0))
      [] signal_name = "focus_score" -> Hundredths(Get(package, "focus_score", 50))
      [] signal_name = "network_activity" ->
             Whole(Get(package, "bytes_sent", 0) + Get(package, "bytes_received", 0))
      [] signal_name = "keystroke_rhythm" ->
             Hundredths(Get(package, "keystroke_rhythm_variance", 0))

\* the mean of a signal's baseline of session s1 before the i-th handled
\* sample: 0 before the first sample, the first value before the second,
\* then 0.9 of the mean plus 0.1 of the value
RECURSIVE MeanBefore(_, _)
MeanBefore(i, signal_name) ==
    IF i = 1 THEN Whole(0)
    ELSE LET v == SignalValue(handled[i - 1].package, signal_name)
             m == MeanBefore(i - 1, signal_name)
         IN  IF i = 2 THEN v
             ELSE Rat(9 * m[1] * v[2] + v[1] * m[2], 10 * m[2] * v[2])

\* C35: the baseline_expected of an anomaly is the mean of the signal's
\* baseline as the earlier samples of the session left it, and its z_score
\* is the sample's value minus that mean: the sample's own value enters the
\* baseline only after the anomaly was built.
C35_ScoredAgainstEarlierBaseline ==
    \A i \in Decided : \A k \in 1..Len(handled[i].anomalies) :
        LET a == handled[i].anomalies[k]
            before == MeanBefore(i, a.signal_name)
        IN  /\ a.baseline_expected = before
            /\ a.z_score = RatSub(SignalValue(handled[i].package, a.signal_name), before)

\* the second sample of a session had an anomaly on a signal whose baseline
\* the first sample had moved away from 0
C35_Witness ==
    /\ Len(handled) = 2
    /\ MetricsOf(handled[1].package) = ScenarioA
    /\ MetricsOf(handled[2].package) = CpuHigh
    /\ handled[2].anomalies[1].baseline_expected = Whole(92)
    /\ handled[2].anomalies[1].z_score = Whole(4)

(***************************************************************************)
(* Properties of the dispersion of the baselines of a running pipeline.    *)
(***************************************************************************)
\* C36: every baseline the detector holds has std_dev = 1, and the z_score
\* of every anomaly is the sample's value minus the mean the baseline had
\* before the sample.
C36_DispersionStaysOne ==
    /\ \A key \in DOMAIN baselines : baselines[key].std_dev = Whole(1)
    /\ \A i \in Decided : \A k \in 1..Len(handled[i].anomalies) :
          handled[i].anomalies[k].z_score =
              RatSub(handled[i].anomalies[k].raw_value,
                     handled[i].anomalies[k].baseline_expected)

\* a session's network baseline has been scored against and updated twice
C36_Witness ==
    /\ Len(handled) = 2
    /\ \A i \in 1..2 : /\ MetricsOf(handled[i].package) = ScenarioB
                       /\ handled[i].package.session_id = "s1"
    /\ baselines[BaselineKey("s1", "network_activity")].count = 2
    /\ handled[2].anomalies[1].z_score = Whole(0)

(***************************************************************************)
(* Properties of the three windows of one key.                             *)
(***************************************************************************)
IsSuffix(short, long) ==
    /\ Len(short) <= Len(long)
    /\ \A i \in 1..Len(short) : short[i] = long[Len(long) - Len(short) + i]

\* C37: for every key, whatever the order of the timestamps ingested, the
\* entries of the 30 s window are the last entries of the 60 s window, and
\* those are the last entries of the 5 min window.
C37_WindowsAreNestedSuffixes ==
    \A key \in DOMAIN windows_30s \cup DOMAIN windows_60s \cup DOMAIN windows_5m :
        /\ IsSuffix(Buffer(windows_30s, key), Buffer(windows_60s, key))
        /\ IsSuffix(Buffer(windows_60s, key), Buffer(windows_5m, key))

\* a sample older than the newest one arrived last; the 5 min window holds
\* an entry the shorter windows have evicted
C37_Witness ==
    \E key \in DOMAIN windows_5m :
        /\ Len(windows_5m[key]) = 3
        /\ Len(windows_60s[key]) = 2
        /\ Len(windows_30s[key]) = 2
        /\ windows_5m[key][3][1] < windows_5m[key][2][1]

(***************************************************************************)
(* Properties of get_stats as a reader.                                    *)
(***************************************************************************)
\* C38: a get_stats call, for any key and window name, leaves the keys the
\* engine holds and the contents of every window as they were.
C38_GetStatsIsReadOnly ==
    [][ (\E device_id \in DeviceIds : \E window_name \in WindowNames :
            GetStats("s1", device_id, window_name))
          => UNCHANGED <<windows_30s, windows_60s, windows_5m>> ]_vars

(***************************************************************************)
(* Properties of a broadcast interleaved with professors coming and going. *)
(***************************************************************************)
\* C39: a broadcast, whatever the handlers of the professors do while it is
\* suspended in a send, runs to its end without an error, and after it
\* every professor that was registered at its start and whose send
\* succeeded is still registered.
C39_BroadcastCompletes ==
    [][ broadcasting' # broadcasting =>
          /\ broadcasting'.at # "failed"
          /\ \A prof_id \in broadcasting'.sent \cap Registered(connected_professors) :
                prof_id \in Registered(connected_professors') ]_vars

(***************************************************************************)
(* Properties of the sessions of a Devices object.                         *)
(***************************************************************************)
LiveTokensOf(device_id) ==
    { token \in DOMAIN devices : devices[token].device_id = device_id }

\* C40: after any authenticate and forget calls a device is online exactly
\* when some live token belongs to it, and the token recorded for an online
\* device is one of its live tokens.
C40_OnlineIffLiveToken ==
    \A device_id \in {"d1", "d2"} :
        /\ IsOnline(device_id) <=> LiveTokensOf(device_id) # {}
        /\ IsOnline(device_id) => online[device_id] \in LiveTokensOf(device_id)

====
